---------------------------- MODULE Spec2Model ----------------------------
(***************************************************************************)
(* The assembly compiler of the recursion DSL                              *)
(* (recursion/compiler/src/asm/compiler.rs): AsmCompiler, IfCompiler and   *)
(* ForCompiler as a state machine over the compiler's fields.              *)
(*                                                                         *)
(* build is a recursive descent over the IR.  The recursion is kept on an  *)
(* explicit stack of frames: one frame for every IfCompiler / ForCompiler  *)
(* method that is waiting for the closure that builds a nested body.  The  *)
(* IR is the input: it is drawn one operation at a time, in the order      *)
(* build visits it, and recorded in ir as the pre-order token list of the  *)
(* operation tree (an "End" token closes a body).                          *)
(***************************************************************************)
EXTENDS Integers, Sequences, FiniteSets, TLC

VARIABLES
    compiler,   \* the AsmCompiler (its fields, and panic: the abort message)
    stack,      \* the sub-compiler calls waiting for a nested build
    status,     \* "new" | "building" | "done" | "aborted"
    ir,         \* the IR consumed so far, as pre-order tokens
    loops,      \* history: one record per For started
    ifs,        \* history: one record per If started
    breaks,     \* history: one record per Break compiled
    allocs,     \* history: one record per Alloc compiled
    limit,      \* the number of operations the IR may hold
    vm,         \* the machine interpreting the compiled blocks
    tally,      \* history of the interpretation: what ran, how often
    probe,      \* two values and the addresses computed for them
    challenger  \* the MultiFieldChallengerVariable, and the history of its calls

vars == <<compiler, stack, status, ir, loops, ifs, breaks, allocs, limit, vm, tally,
          probe, challenger>>
\* What the compiler leaves alone.
rest == <<limit, vm, tally, probe, challenger>>

---------------------------------------------------------------------------
(* Bounds of the model. *)

\* Operations (at every depth) in one IR.
MaxOps == 4
\* Nesting depth of If / For bodies.
MaxDepth == 3
\* Operations in one IR that is compiled and then interpreted.
MaxRunOps == 3
\* Operations in one IR of allocations that is compiled and then interpreted.
MaxAllocOps == 3
\* Instructions the machine executes in one run.
MaxSteps == 26
\* Indices of the values whose addresses are compared.
MaxIndex == 6
\* The operations of an IR with refused operations.
MaxHintOps == 3
\* The operations of an IR of loops over constant ranges.
MaxRangeOps == 3
\* The operations of an IR of assertions that is compiled and then interpreted.
MaxAssertOps == 3
\* The operations of an IR of allocations of any length.
MaxHeapOps == 3
\* Operations of the IR drawn in the runs that check the layout of the blocks.
MaxLayoutOps == 3
\* Operations of the IR drawn, over all the calls of build, in the runs with
\* several top-level calls.
MaxBuildOps == 3
\* Operations of the IR drawn in the runs of negations and inversions.
MaxArithOps == 3
\* Largest block label handed to IfCompiler::branch on its own.
MaxBlock == 3
\* Operations of the IR drawn in the runs that follow the block list through
\* If, Assert and For.
MaxBlockOps == 3
\* Operations of the IR drawn in the runs of loops of any constant step.
MaxStepOps == 3
\* Calls of new_break_label made by the user of the compiler, outside build.
MaxLabelCalls == 1
MaxAllocCalls == 1
MaxAssertCalls == 1

---------------------------------------------------------------------------
(* Constants of the program. *)

ZERO == 0
STACK_START_OFFSET == 16
HEAP_PTR == -4
A0 == -8
\* sp1_recursion_core::runtime::STACK_SIZE
STACK_SIZE == 16777216
\* The order of the field F (BabyBear).
P == 2013265921

---------------------------------------------------------------------------
(* Option<F>, Usize<F> and ValueOrConst<F, EF>. *)

None == <<>>
Some(x) == <<x>>
UConst(n) == <<"Const", n>>
UVar(v) == <<"Var", v>>
Val(a) == <<"Val", a>>
Const(k) == <<"Const", k>>
ExtVal(a) == <<"ExtVal", a>>
ExtConst(k) == <<"ExtConst", k>>

(* Addresses: Var::fp, Felt::fp, Ext::fp, Ptr::fp.  The indices of the model *)
(* stay in the range where the 32-bit computation does not overflow.        *)
\* Mutant: the offset of a Var is 3, a whole stride.
Var_fp_whole_stride(i) == -((i * 3) + 3 + STACK_START_OFFSET)

Var_fp(i) == -((i * 3) + 1 + STACK_START_OFFSET)
Felt_fp(i) == -((i * 3) + 2 + STACK_START_OFFSET)
\* Mutant: the frame of an Ext starts at the frame pointer.
Ext_fp_at_zero(i) == -(i * 3)
Ext_fp(i) == -((i * 3) + STACK_START_OFFSET)
Ptr_fp(address) == Var_fp(address)

(* AsmInstruction: a tag followed by the operands, in the order of the enum. *)
ImmF(dst, v) == <<"ImmF", dst, v>>
AddF(dst, lhs, rhs) == <<"AddF", dst, lhs, rhs>>
AddFI(dst, lhs, rhs) == <<"AddFI", dst, lhs, rhs>>
MulFI(dst, lhs, rhs) == <<"MulFI", dst, lhs, rhs>>
Bne(label, lhs, rhs) == <<"Bne", label, lhs, rhs>>
BneI(label, lhs, rhs) == <<"BneI", label, lhs, rhs>>
Beq(label, lhs, rhs) == <<"Beq", label, lhs, rhs>>
BeqI(label, lhs, rhs) == <<"BeqI", label, lhs, rhs>>
BneInc(label, lhs, rhs) == <<"BneInc", label, lhs, rhs>>
BneIInc(label, lhs, rhs) == <<"BneIInc", label, lhs, rhs>>
BneE(label, lhs, rhs) == <<"BneE", label, lhs, rhs>>
BneEI(label, lhs, rhs) == <<"BneEI", label, lhs, rhs>>
BeqE(label, lhs, rhs) == <<"BeqE", label, lhs, rhs>>
BeqEI(label, lhs, rhs) == <<"BeqEI", label, lhs, rhs>>
ImmE(dst, v) == <<"ImmE", dst, v>>
SubFIN(dst, lhs, rhs) == <<"SubFIN", dst, lhs, rhs>>
DivFIN(dst, lhs, rhs) == <<"DivFIN", dst, lhs, rhs>>
SubEIN(dst, lhs, rhs) == <<"SubEIN", dst, lhs, rhs>>
DivEIN(dst, lhs, rhs) == <<"DivEIN", dst, lhs, rhs>>
BreakI(label) == <<"Break", label>>
j(label) == <<"j", label>>
Trap == <<"Trap">>

\* Arithmetic in F, on the naturals below P, computed within 32 bits.  Each
\* operator takes the value of its operands once: they are bound as the
\* element v of a singleton, and the result is the element of the image.
The(S) == CHOOSE r \in S : TRUE

FAdd(a, b) ==
    The({ IF v[1] >= P - v[2] THEN v[1] - (P - v[2]) ELSE v[1] + v[2] :
            v \in {<<a, b>>} })

\* 16 * h + k * a, for a digit 0 <= k < 16.
FDigit(h, a, k) ==
    The({ FAdd(FAdd(v[4], v[4]),
               FAdd(FAdd(IF k % 2 = 1 THEN a ELSE 0,
                         IF (k \div 2) % 2 = 1 THEN v[1] ELSE 0),
                    FAdd(IF (k \div 4) % 2 = 1 THEN v[2] ELSE 0,
                         IF k \div 8 = 1 THEN v[3] ELSE 0))) :
            v \in { <<a2, a4, FAdd(a4, a4), h8>> :
                      a2 \in {FAdd(a, a)}, a4 \in {FAdd(FAdd(a, a), FAdd(a, a))},
                      h8 \in {FAdd(FAdd(FAdd(h, h), FAdd(h, h)),
                                   FAdd(FAdd(h, h), FAdd(h, h)))} } })

\* a * b in F, on the hexadecimal digits of b.
RECURSIVE FMul(_, _)
FMul(a, b) ==
    The({ IF v[1] = 0 \/ v[2] = 0 THEN 0
          ELSE The({ FDigit(h, v[1], v[2] % 16) :
                       h \in {FMul(v[1], v[2] \div 16)} }) :
            v \in {<<a, b>>} })

---------------------------------------------------------------------------
\* Subtraction and inversion in F.  The inverse of a is the coefficient t of
\* s * P + t * a = 1, by Euclid's algorithm on (P, a).
FSub(a, b) ==
    The({ IF v[1] >= v[2] THEN v[1] - v[2] ELSE v[1] + (P - v[2]) :
            v \in {<<a, b>>} })

RECURSIVE Bezout(_, _, _, _)
Bezout(r0, r1, t0, t1) ==
    The({ IF v[2] = 0 THEN v[3]
          ELSE Bezout(v[2], v[1] % v[2], v[4], v[3] - (v[1] \div v[2]) * v[4]) :
            v \in {<<r0, r1, t0, t1>>} })

FInv(a) == The({ IF t < 0 THEN t + P ELSE t : t \in {Bezout(P, a, 0, 1)} })

\* EF = F[x] / (x^4 - W): an element is the tuple of its four coefficients.
W == 11
EZero == <<0, 0, 0, 0>>
EOne == <<1, 0, 0, 0>>
ESub(a, b) == [i \in 1 .. 4 |-> FSub(a[i], b[i])]

\* The coefficient of x^(n-1) of the product, x^4 being W; m[i][k] is
\* a[i] * b[k].
EMul(a, b) ==
    The({ << FAdd(m[1][1], FMul(W, FAdd(FAdd(m[2][4], m[3][3]), m[4][2]))),
             FAdd(FAdd(m[1][2], m[2][1]), FMul(W, FAdd(m[3][4], m[4][3]))),
             FAdd(FAdd(FAdd(m[1][3], m[2][2]), m[3][1]), FMul(W, m[4][4])),
             FAdd(FAdd(FAdd(m[1][4], m[2][3]), m[3][2]), m[4][1]) >> :
            m \in { [i \in 1 .. 4 |-> [k \in 1 .. 4 |-> FMul(v[1][i], v[2][k])]] :
                      v \in {<<a, b>>} } })

\* The inverse in EF, through the norms to F[x^2] / (x^4 - W) and to F:
\* with a = A + x B (A, B in F[y], y = x^2), 1 / a = (A - x B) / (A^2 - y B^2).
EInv(a) ==
    The({ The({ EMul(conj, <<FMul(d[1], n), 0, FMul(FSub(0, d[3]), n), 0>>) :
                  n \in {FInv(FSub(FMul(d[1], d[1]),
                                   FMul(W, FMul(d[3], d[3]))))} }) :
            conj \in {<<a[1], FSub(0, a[2]), a[3], FSub(0, a[4])>>},
            d \in {EMul(a, <<a[1], FSub(0, a[2]), a[3], FSub(0, a[4])>>)} })

---------------------------------------------------------------------------
(* AsmCompiler. *)

\* Besides the fields of the struct, a compiler carries the outcome of a panic
\* and the profile it is built with: overflow_checks is on in the debug
\* profile and off in the release profile.  With at least one block no
\* operation depends on it.
new ==
    [ basic_blocks    |-> << <<>> >>,
      break_label     |-> None,
      break_label_map |-> {},
      contains_break  |-> {},
      function_labels |-> <<>>,
      break_counter   |-> 0,
      overflow_checks |-> TRUE,
      panic           |-> "" ]

\* #[derive(Default)]: every field is the default of its type, and the
\* default of a Vec is the empty one.
default ==
    [ basic_blocks    |-> <<>>,
      break_label     |-> None,
      break_label_map |-> {},
      contains_break  |-> {},
      function_labels |-> <<>>,
      break_counter   |-> 0,
      overflow_checks |-> TRUE,
      panic           |-> "" ]

\* The same compiler in the profile with or without overflow checks.
with_overflow_checks(c, on) == [c EXCEPT !.overflow_checks = on]

\* A panic unwinds: nothing after it runs.
basic_block(c) ==
    IF c.panic # "" THEN c
    ELSE [c EXCEPT !.basic_blocks = Append(@, <<>>)]

\* len() - 1 in usize panics: no block, and overflow checks are on.
overflows(c) == c.panic = "" /\ c.overflow_checks /\ c.basic_blocks = <<>>
overflow(c) == [c EXCEPT !.panic = "attempt to subtract with overflow"]

\* With no block len() - 1 is 0 - 1 in usize: a panic with overflow checks;
\* without them usize::MAX, whose image in F is 2^32 - 1 modulo P.
block_label(c) ==
    IF c.basic_blocks # <<>> THEN Len(c.basic_blocks) - 1
    ELSE IF c.overflow_checks THEN [panic |-> overflow(c).panic]
    ELSE (2 * (2147483647 % P) + 1) % P

\* Mutant: the label is taken as the position of the block, counted from 1.
push_to_block_from_one(c, label, instruction) ==
    IF c.panic # "" THEN c
    ELSE IF label \in DOMAIN c.basic_blocks
         THEN [c EXCEPT !.basic_blocks[label] = Append(@, instruction)]
         ELSE [c EXCEPT !.panic = "Missing block at label"]

push_to_block(c, label, instruction) ==
    IF c.panic # "" THEN c
    ELSE IF label + 1 \in DOMAIN c.basic_blocks
         THEN [c EXCEPT !.basic_blocks[label + 1] = Append(@, instruction)]
         ELSE [c EXCEPT !.panic = "Missing block at label"]

push(c, instruction) ==
    IF c.panic # "" THEN c
    ELSE IF c.basic_blocks = <<>>
    THEN [c EXCEPT !.panic = "called Option::unwrap() on a None value"]
    ELSE [c EXCEPT !.basic_blocks[Len(c.basic_blocks)] = Append(@, instruction)]

\* Mutant: the counter is not advanced, every loop gets the same label.
new_break_label_same(c) ==
    [c EXCEPT !.break_label = Some(c.break_counter)]

\* The label returned is the counter before the call.
new_break_label(c) ==
    IF c.panic # "" THEN c
    ELSE [c EXCEPT !.break_counter = @ + 1, !.break_label = Some(c.break_counter)]

\* The head of build: the heap pointer is set when the current block is block 0.
\* With no block the label is not zero in F, or its computation panics.
build_enter(c) ==
    IF c.panic # "" THEN c
    ELSE IF overflows(c) THEN overflow(c)
    ELSE IF block_label(c) = 0
    THEN push(c, ImmF(HEAP_PTR, STACK_SIZE + 4))
    ELSE c

\* Mutant: the heap pointer is advanced before ptr is bound.
alloc_advance_first(c, ptr, len, size) ==
    IF len[1] = "Const"
    THEN push(push(c, AddFI(HEAP_PTR, HEAP_PTR, FMul(len[2], size))),
              AddFI(Ptr_fp(ptr), HEAP_PTR, 0))
    ELSE push(push(push(c, MulFI(A0, Var_fp(len[2]), size)),
                   AddF(HEAP_PTR, HEAP_PTR, A0)),
              AddFI(Ptr_fp(ptr), HEAP_PTR, 0))

alloc(c, ptr, len, size) ==
    IF len[1] = "Const"
    THEN push(push(c, AddFI(Ptr_fp(ptr), HEAP_PTR, 0)),
              AddFI(HEAP_PTR, HEAP_PTR, FMul(len[2], size)))
    ELSE push(push(push(c, AddFI(Ptr_fp(ptr), HEAP_PTR, 0)),
                   MulFI(A0, Var_fp(len[2]), size)),
              AddF(HEAP_PTR, HEAP_PTR, A0))

\* Mutant: a missing break label defaults to label 0.
break_op_or_default(c) ==
    LET label == IF c.break_label = None THEN 0 ELSE c.break_label[1]
        current_block == block_label(c)
    IN push([c EXCEPT !.contains_break = @ \cup {current_block}], BreakI(label))

\* DslIR::Break
break_op(c) ==
    IF c.break_label = None
    THEN [c EXCEPT !.panic = "No break label set"]
    ELSE IF overflows(c) THEN overflow(c)
    ELSE LET label == c.break_label[1]
             current_block == block_label(c)
         IN push([c EXCEPT !.contains_break = @ \cup {current_block}],
                 BreakI(label))

---------------------------------------------------------------------------
(* IfCompiler. *)

\* Mutant: the target is one block too far.
branch_off_by_one(lhs, rhs, is_eq, block) ==
    CASE rhs[1] = "Const" /\ is_eq -> BneI(block + 1, lhs, rhs[2])
      [] rhs[1] = "Const" /\ ~is_eq -> BeqI(block + 1, lhs, rhs[2])
      [] rhs[1] = "Val" /\ is_eq -> Bne(block + 1, lhs, rhs[2])
      [] rhs[1] = "Val" /\ ~is_eq -> Beq(block + 1, lhs, rhs[2])

\* Mutant: the branch is taken on the condition, not on its negation.
branch_not_negated(lhs, rhs, is_eq, block) ==
    CASE rhs[1] = "Const" /\ is_eq -> BeqI(block, lhs, rhs[2])
      [] rhs[1] = "Const" /\ ~is_eq -> BneI(block, lhs, rhs[2])
      [] rhs[1] = "Val" /\ is_eq -> Beq(block, lhs, rhs[2])
      [] rhs[1] = "Val" /\ ~is_eq -> Bne(block, lhs, rhs[2])

\* Mutant: the base-field opcode is selected for an operand of EF too.
branch_base_only(lhs, rhs, is_eq, block) ==
    CASE rhs[1] \in {"Const", "ExtConst"} /\ is_eq -> BneI(block, lhs, rhs[2])
      [] rhs[1] \in {"Const", "ExtConst"} /\ ~is_eq -> BeqI(block, lhs, rhs[2])
      [] rhs[1] \in {"Val", "ExtVal"} /\ is_eq -> Bne(block, lhs, rhs[2])
      [] rhs[1] \in {"Val", "ExtVal"} /\ ~is_eq -> Beq(block, lhs, rhs[2])

branch(lhs, rhs, is_eq, block) ==
    CASE rhs[1] = "Const" /\ is_eq -> BneI(block, lhs, rhs[2])
      [] rhs[1] = "Const" /\ ~is_eq -> BeqI(block, lhs, rhs[2])
      [] rhs[1] = "ExtConst" /\ is_eq -> BneEI(block, lhs, rhs[2])
      [] rhs[1] = "ExtConst" /\ ~is_eq -> BeqEI(block, lhs, rhs[2])
      [] rhs[1] = "Val" /\ is_eq -> Bne(block, lhs, rhs[2])
      [] rhs[1] = "Val" /\ ~is_eq -> Beq(block, lhs, rhs[2])
      [] rhs[1] = "ExtVal" /\ is_eq -> BneE(block, lhs, rhs[2])
      [] rhs[1] = "ExtVal" /\ ~is_eq -> BeqE(block, lhs, rhs[2])

\* then, up to the call of f.
then_enter(c) ==
    IF overflows(c) THEN overflow(c) ELSE build_enter(basic_block(c))

\* Mutant: the branch is pushed to the block that is current when f returns.
then_exit_in_place(c, fr) ==
    LET c1 == basic_block(c)
        after_if_block == block_label(c1)
        instr == branch(fr.lhs, fr.rhs, fr.is_eq, after_if_block)
    IN push_to_block(c1, block_label(c), instr)

\* Mutant: no after-block is created, the branch targets the block to come.
then_exit_no_after(c, fr) ==
    LET instr == branch(fr.lhs, fr.rhs, fr.is_eq, block_label(c) + 1)
    IN push_to_block(c, fr.if_branching_block, instr)

\* then, after f returned.
then_exit(c, fr) ==
    LET c1 == basic_block(c)
        after_if_block == block_label(c1)
        instr == branch(fr.lhs, fr.rhs, fr.is_eq, after_if_block)
    IN push_to_block(c1, fr.if_branching_block, instr)

\* then_or_else, up to the call of then_f.
then_or_else_enter(c) ==
    IF overflows(c) THEN overflow(c) ELSE build_enter(basic_block(c))

\* then_or_else, between then_f and else_f.
then_or_else_mid(c) == build_enter(basic_block(c))

\* Mutant: the jump to the after-block is pushed to the terminal block of the
\* else body.
then_or_else_exit_jump_from_else(c, fr) ==
    LET instr == branch(fr.lhs, fr.rhs, fr.is_eq, fr.else_block)
        c1 == push_to_block(c, fr.if_branching_block, instr)
        c2 == basic_block(c1)
        main_flow_block == block_label(c2)
    IN push_to_block(c2, block_label(c), j(main_flow_block))

\* Mutant: the jump to the after-block is pushed to the branching block.
then_or_else_exit_jump_from_branching(c, fr) ==
    LET instr == branch(fr.lhs, fr.rhs, fr.is_eq, fr.else_block)
        c1 == push_to_block(c, fr.if_branching_block, instr)
        c2 == basic_block(c1)
        main_flow_block == block_label(c2)
    IN push_to_block(c2, fr.if_branching_block, j(main_flow_block))

\* then_or_else, after else_f returned.
then_or_else_exit(c, fr) ==
    LET instr == branch(fr.lhs, fr.rhs, fr.is_eq, fr.else_block)
        c1 == push_to_block(c, fr.if_branching_block, instr)
        c2 == basic_block(c1)
        main_flow_block == block_label(c2)
    IN push_to_block(c2, fr.last_if_block, j(main_flow_block))

---------------------------------------------------------------------------
(* ForCompiler. *)

set_loop_var(c, start, loop_var) ==
    IF start[1] = "Const"
    THEN push(c, ImmF(Var_fp(loop_var), start[2]))
    ELSE push(c, AddFI(Var_fp(loop_var), Var_fp(start[2]), 0))

\* Mutant: the branch of the condition block targets the condition block.
jump_to_loop_body_self(c, end, loop_var, loop_label) ==
    IF end[1] = "Const"
    THEN push(c, BneI(block_label(c), Var_fp(loop_var), end[2]))
    ELSE push(c, Bne(block_label(c), Var_fp(loop_var), Var_fp(end[2])))

jump_to_loop_body(c, end, loop_var, loop_label) ==
    IF end[1] = "Const"
    THEN push(c, BneI(loop_label, Var_fp(loop_var), end[2]))
    ELSE push(c, Bne(loop_label, Var_fp(loop_var), Var_fp(end[2])))

\* Mutant: the branch is not the fused one, the loop variable is not incremented.
jump_to_loop_body_no_inc(c, end, loop_var, loop_label) ==
    IF end[1] = "Const"
    THEN push(c, BneI(loop_label, Var_fp(loop_var), end[2]))
    ELSE push(c, Bne(loop_label, Var_fp(loop_var), Var_fp(end[2])))

jump_to_loop_body_inc(c, end, loop_var, loop_label) ==
    IF end[1] = "Const"
    THEN push(c, BneIInc(loop_label, Var_fp(loop_var), end[2]))
    ELSE push(c, BneInc(loop_label, Var_fp(loop_var), Var_fp(end[2])))

\* Mutant: a Break of this loop becomes a jump to the condition block.
resolve_instruction_to_condition(instruction, break_label, label) ==
    IF instruction[1] = "Break" /\ instruction[2] = break_label
    THEN j(label - 1)
    ELSE instruction

\* Mutant: the Break markers of every loop are rewritten.
resolve_instruction_any_label(instruction, break_label, label) ==
    IF instruction[1] = "Break"
    THEN j(label)
    ELSE instruction

\* One instruction of a block in contains_break: a Break of this loop becomes a jump.
resolve_instruction(instruction, break_label, label) ==
    IF instruction[1] = "Break" /\ instruction[2] = break_label
    THEN j(label)
    ELSE instruction

\* Mutant: the markers of the loop are removed, and the jump is appended.
resolve_breaks_by_removal(c, break_label, label) ==
    LET Keep(instruction) ==
            ~(instruction[1] = "Break" /\ instruction[2] = break_label)
    IN [c EXCEPT !.basic_blocks =
        [b \in DOMAIN @ |->
            IF (b - 1) \in c.contains_break /\ SelectSeq(@[b], Keep) # @[b]
            THEN Append(SelectSeq(@[b], Keep), j(label))
            ELSE @[b]]]

\* The rewrite of the Break markers, over the blocks in contains_break.
resolve_breaks(c, break_label, label) ==
    [c EXCEPT !.basic_blocks =
        [b \in DOMAIN @ |->
            IF (b - 1) \in c.contains_break
            THEN [i \in DOMAIN @[b] |->
                     resolve_instruction(@[b][i], break_label, label)]
            ELSE @[b]]]

\* BTreeMap::insert, the map being its set of (key, value) pairs.
map_insert(m, k, v) == {e \in m : e[1] # k} \cup {<<k, v>>}

\* Mutant: the loop body goes on in the block of the loop call.
for_each_enter_in_place(c, start, loop_var) ==
    LET c1 == set_loop_var(c, start, loop_var)
        c2 == new_break_label(c1)
        break_label == c1.break_counter
        c3 == [c2 EXCEPT !.break_label = Some(break_label)]
    IN build_enter(c3)

\* for_each, up to the call of f.
for_each_enter(c, start, loop_var) ==
    LET c1 == set_loop_var(c, start, loop_var)
        c2 == new_break_label(c1)
        break_label == c1.break_counter
        c3 == [c2 EXCEPT !.break_label = Some(break_label)]
    IN IF c1.panic # "" THEN c1 ELSE build_enter(basic_block(c3))

\* Mutant: a constant range with end below start is refused with a Trap.
for_each_exit_checked(c, fr) ==
    LET c0 == IF fr.start[1] = "Const" /\ fr.end[1] = "Const"
                 /\ fr.end[2] < fr.start[2]
              THEN push(c, Trap) ELSE c
        c1 == IF fr.step_size = 1
              THEN jump_to_loop_body_inc(c0, fr.end, fr.loop_var, fr.loop_label)
              ELSE push(c0, AddFI(Var_fp(fr.loop_var), Var_fp(fr.loop_var),
                                  fr.step_size))
        c2 == jump_to_loop_body(basic_block(c1), fr.end, fr.loop_var,
                                fr.loop_label)
        c3 == push_to_block(c2, fr.loop_call_label, j(block_label(c2)))
        c4 == basic_block(c3)
        label == block_label(c4)
        c5 == [c4 EXCEPT !.break_label_map =
                            map_insert(@, fr.break_label, label)]
    IN IF c5.panic # "" THEN c5
       ELSE resolve_breaks(c5, fr.break_label, label)

\* Mutant: the increment is never fused with the branch.
for_each_exit_unfused(c, fr) ==
    LET c1 == push(push(c, AddFI(Var_fp(fr.loop_var), Var_fp(fr.loop_var),
                                 fr.step_size)),
                   jump_to_loop_body(c, fr.end, fr.loop_var, fr.loop_label)
                       .basic_blocks[Len(c.basic_blocks)]
                           [Len(c.basic_blocks[Len(c.basic_blocks)]) + 1])
        c2 == jump_to_loop_body(basic_block(c1), fr.end, fr.loop_var,
                                fr.loop_label)
        c3 == push_to_block(c2, fr.loop_call_label, j(block_label(c2)))
        c4 == basic_block(c3)
        label == block_label(c4)
        c5 == [c4 EXCEPT !.break_label_map =
                            map_insert(@, fr.break_label, label)]
    IN IF c5.panic # "" THEN c5
       ELSE resolve_breaks(c5, fr.break_label, label)

\* Mutant: a loop of non-unit step adds 1 to the loop variable.
for_each_exit_unit_increment(c, fr) ==
    LET c1 == IF fr.step_size = 1
              THEN jump_to_loop_body_inc(c, fr.end, fr.loop_var, fr.loop_label)
              ELSE push(c, AddFI(Var_fp(fr.loop_var), Var_fp(fr.loop_var), 1))
        c2 == jump_to_loop_body(basic_block(c1), fr.end, fr.loop_var,
                                fr.loop_label)
        c3 == push_to_block(c2, fr.loop_call_label, j(block_label(c2)))
        c4 == basic_block(c3)
        label == block_label(c4)
        c5 == [c4 EXCEPT !.break_label_map =
                            map_insert(@, fr.break_label, label)]
    IN IF c5.panic # "" THEN c5
       ELSE resolve_breaks(c5, fr.break_label, label)

\* for_each, after f returned.
for_each_exit(c, fr) ==
    LET c1 == IF fr.step_size = 1
              THEN jump_to_loop_body_inc(c, fr.end, fr.loop_var, fr.loop_label)
              ELSE push(c, AddFI(Var_fp(fr.loop_var), Var_fp(fr.loop_var),
                                 fr.step_size))
        c2 == jump_to_loop_body(basic_block(c1), fr.end, fr.loop_var,
                                fr.loop_label)
        c3 == push_to_block(c2, fr.loop_call_label, j(block_label(c2)))
        c4 == basic_block(c3)
        label == block_label(c4)
        c5 == [c4 EXCEPT !.break_label_map =
                            map_insert(@, fr.break_label, label)]
    IN IF c5.panic # "" THEN c5
       ELSE resolve_breaks(c5, fr.break_label, label)

---------------------------------------------------------------------------
(* MultiFieldChallengerVariable (recursion/circuit/src/challenger.rs).     *)
(* An observed value is named by its rank among the observed values, a     *)
(* squeezed element by the rank of its duplexing and its place in it.  The *)
(* fields observed, absorbed, duplexings, returned, calls are history.     *)

WIDTH == 3
DIGEST_SIZE == 1

challenger_new(num_f_elms) ==
    [ sponge_state  |-> <<0, 0, 0>>,
      input_buffer  |-> <<>>,
      output_buffer |-> <<>>,
      num_f_elms    |-> num_f_elms,
      observed      |-> 0,
      absorbed      |-> <<>>,
      duplexings    |-> <<>>,
      returned      |-> <<>>,
      calls         |-> <<>>,
      panic         |-> "" ]

\* slice::chunks: the number of chunks of a slice of len elements.
chunks(len, chunk_size) == (len + chunk_size - 1) \div chunk_size

\* Mutant: the absorbed inputs stay in the input buffer.
duplexing_keeps_input(ch) ==
    IF ch.panic # "" THEN ch
    ELSE [ch EXCEPT
            !.sponge_state = [i \in 1 .. WIDTH |-> <<Len(ch.duplexings) + 1, i - 1>>],
            !.output_buffer =
                [k \in 1 .. WIDTH * ch.num_f_elms |->
                    <<Len(ch.duplexings) + 1, (k - 1) \div ch.num_f_elms,
                      (k - 1) % ch.num_f_elms>>],
            !.absorbed = @ \o ch.input_buffer,
            !.duplexings = Append(@,
                [ observed |-> ch.observed,
                  inputs   |-> Len(ch.input_buffer),
                  chunks   |-> chunks(Len(ch.input_buffer), ch.num_f_elms),
                  squeezed |-> WIDTH * ch.num_f_elms ])]

\* duplexing: the chunks of the input buffer overwrite the first cells of
\* the sponge state, the state is permuted, and every cell of it is split
\* into num_f_elms elements of the output buffer.
duplexing(ch) ==
    IF ch.panic # "" THEN ch
    ELSE IF ~(Len(ch.input_buffer) <= ch.num_f_elms * WIDTH)
    THEN [ch EXCEPT !.panic =
            "assertion failed: self.input_buffer.len() <= self.num_f_elms * WIDTH"]
    ELSE IF ch.num_f_elms = 0
    THEN [ch EXCEPT !.panic = "chunk size must be non-zero"]
    ELSE IF chunks(Len(ch.input_buffer), ch.num_f_elms) > WIDTH
    THEN [ch EXCEPT !.panic = "index out of bounds"]
    ELSE [ch EXCEPT
            !.sponge_state = [i \in 1 .. WIDTH |-> <<Len(ch.duplexings) + 1, i - 1>>],
            !.input_buffer = <<>>,
            !.output_buffer =
                [k \in 1 .. WIDTH * ch.num_f_elms |->
                    <<Len(ch.duplexings) + 1, (k - 1) \div ch.num_f_elms,
                      (k - 1) % ch.num_f_elms>>],
            !.absorbed = @ \o ch.input_buffer,
            !.duplexings = Append(@,
                [ observed |-> ch.observed,
                  inputs   |-> Len(ch.input_buffer),
                  chunks   |-> chunks(Len(ch.input_buffer), ch.num_f_elms),
                  squeezed |-> WIDTH * ch.num_f_elms ])]

\* Mutant: the duplexing waits for the buffer to overflow.
observe_until_over(ch, value) ==
    IF ch.panic # "" THEN ch
    ELSE The({ IF Len(c1.input_buffer) > c1.num_f_elms * WIDTH
               THEN duplexing(c1) ELSE c1 :
               c1 \in {[ch EXCEPT !.output_buffer = <<>>,
                                  !.input_buffer = Append(@, value),
                                  !.observed = @ + 1]} })

observe(ch, value) ==
    IF ch.panic # "" THEN ch
    ELSE The({ IF Len(c1.input_buffer) = c1.num_f_elms * WIDTH
               THEN duplexing(c1) ELSE c1 :
               c1 \in {[ch EXCEPT !.output_buffer = <<>>,
                                  !.input_buffer = Append(@, value),
                                  !.observed = @ + 1]} })

\* observe of k values in a row, each a new one.
RECURSIVE observe_each(_, _)
observe_each(ch, k) ==
    IF k = 0 THEN ch
    ELSE The({ observe(c, c.observed + 1) : c \in {observe_each(ch, k - 1)} })

\* Every cell of the digest is split into num_f_elms values, each observed.
observe_commitment(ch) == observe_each(ch, DIGEST_SIZE * ch.num_f_elms)

\* The pop of sample, on the challenger c1 that the optional duplexing of
\* the challenger ch has left.
pop(ch, c1) ==
    IF c1.panic # "" THEN c1
    ELSE IF c1.output_buffer = <<>>
    THEN [c1 EXCEPT !.panic = "output buffer should be non-empty"]
    ELSE [c1 EXCEPT
            !.output_buffer = SubSeq(@, 1, Len(@) - 1),
            !.returned = Append(@,
                [ element  |-> c1.output_buffer[Len(c1.output_buffer)],
                  observed |-> ch.observed,
                  inputs   |-> Len(ch.input_buffer),
                  outputs  |-> Len(ch.output_buffer),
                  duplexed |-> Len(ch.duplexings) ])]

\* Mutant: sample pops what the output buffer holds, without duplexing.
sample_without_duplexing(ch) ==
    IF ch.panic # "" THEN ch ELSE pop(ch, ch)

sample(ch) ==
    IF ch.panic # "" THEN ch
    ELSE The({ pop(ch, c1) :
               c1 \in {IF ch.input_buffer # <<>> \/ ch.output_buffer = <<>>
                       THEN duplexing(ch) ELSE ch} })

sample_ext(ch) ==
    The({ sample(d) : d \in {The({ sample(c) : c \in
        {The({ sample(b) : b \in {sample(ch)} })} })} })

\* The bits of the sample are taken in the circuit: the challenger is
\* left as sample leaves it.
sample_bits(ch, bits) == sample(ch)

check_witness(ch, bits, witness) ==
    The({ sample_bits(c, bits) : c \in {observe(ch, witness)} })

---------------------------------------------------------------------------
(* The state machine: build, one action per arm of its match, and one per  *)
(* return of a nested build into the sub-compiler that called it.          *)

\* The memory cells the inputs can name; a cell of an Ext holds the four
\* coordinates of an element of EF.
ExtCells == {Ext_fp(i) : i \in 0 .. 1}
Cells ==
    {ZERO, HEAP_PTR, A0} \cup {Var_fp(i) : i \in 0 .. 3}
        \cup {Felt_fp(i) : i \in 0 .. 1} \cup ExtCells

Rig(n) ==
    /\ stack = <<>>
    /\ status = "new"
    /\ ir = <<>>
    /\ loops = <<>>
    /\ ifs = <<>>
    /\ breaks = <<>>
    /\ allocs = <<>>
    /\ limit = n
    /\ vm = [state |-> "idle", block |-> 0, idx |-> 1, steps |-> 0,
             mem |-> [a \in Cells |-> IF a \in ExtCells THEN <<0, 0, 0, 0>> ELSE 0]]
    /\ tally = [visits |-> <<>>, entered |-> <<>>, held |-> <<>>,
                failed |-> <<>>, trail |-> <<>>]

NumFElms == {1, 8}

Machine(n) == compiler = new /\ Rig(n) /\ challenger = challenger_new(8)

NoProbe == [a |-> <<"Var", 0>>, b |-> <<"Var", 0>>, fp |-> <<>>]
Start(n) == Machine(n) /\ probe = NoProbe

Init == Start(MaxOps)

OpCount == Cardinality({i \in DOMAIN ir : ir[i][1] \notin {"End", "Return"}})
CanOp == status = "building" /\ OpCount < limit
CanNest == CanOp /\ Len(stack) < MaxDepth
Outcome(c) == IF c.panic # "" THEN "aborted" ELSE "building"
Top == stack[Len(stack)]
Pop == SubSeq(stack, 1, Len(stack) - 1)

\* The innermost For whose body is being built (0: none).
RECURSIVE OwnerIn(_)
OwnerIn(s) ==
    IF s = <<>> THEN 0
    ELSE IF s[Len(s)].kind = "for_each" THEN s[Len(s)].id
    ELSE OwnerIn(SubSeq(s, 1, Len(s) - 1))

\* The top-level call of build on the new compiler.
build ==
    /\ status = "new"
    /\ compiler' = build_enter(compiler)
    /\ status' = Outcome(compiler')
    /\ UNCHANGED <<stack, ir, loops, ifs, breaks, allocs>>
    /\ UNCHANGED rest

\* The operations of the top-level list are exhausted.
build_return ==
    /\ status = "building"
    /\ stack = <<>>
    /\ status' = "done"
    /\ UNCHANGED <<compiler, stack, ir, loops, ifs, breaks, allocs>>
    /\ UNCHANGED rest

\* The next top-level call of build, after the previous one returned.  Two
\* empty lists in a row are not drawn.
build_again ==
    /\ status = "done"
    /\ OpCount < limit
    /\ IF ir = <<>> THEN TRUE ELSE ir[Len(ir)][1] # "Return"
    /\ compiler' = build_enter(compiler)
    /\ status' = "building"
    /\ ir' = Append(ir, <<"Return">>)
    /\ UNCHANGED <<stack, loops, ifs, breaks, allocs>>
    /\ UNCHANGED rest

ImmV(dst, src) ==
    /\ CanOp
    /\ compiler' = push(compiler, ImmF(Var_fp(dst), src))
    /\ ir' = Append(ir, <<"ImmV", dst, src>>)
    /\ status' = Outcome(compiler')
    /\ UNCHANGED <<stack, loops, ifs, breaks, allocs>>
    /\ UNCHANGED rest

AddVI(dst, lhs, rhs) ==
    /\ CanOp
    /\ compiler' = push(compiler, AddFI(Var_fp(dst), Var_fp(lhs), rhs))
    /\ ir' = Append(ir, <<"AddVI", dst, lhs, rhs>>)
    /\ status' = Outcome(compiler')
    /\ UNCHANGED <<stack, loops, ifs, breaks, allocs>>
    /\ UNCHANGED rest

Error ==
    /\ CanOp
    /\ compiler' = push(compiler, Trap)
    /\ ir' = Append(ir, <<"Error">>)
    /\ status' = Outcome(compiler')
    /\ UNCHANGED <<stack, loops, ifs, breaks, allocs>>
    /\ UNCHANGED rest

Alloc(ptr, len, size) ==
    /\ CanOp
    /\ compiler' = alloc(compiler, ptr, len, size)
    /\ ir' = Append(ir, <<"Alloc", ptr, len, size>>)
    /\ status' = Outcome(compiler')
    /\ allocs' = IF compiler'.panic # "" THEN allocs
                 ELSE Append(allocs,
                        [ block |-> block_label(compiler),
                          idx   |-> Len(compiler.basic_blocks[Len(compiler.basic_blocks)]) + 1,
                          ptr   |-> ptr, len |-> len, size |-> size,
                          op    |-> Len(ir) + 1 ])
    /\ UNCHANGED <<stack, loops, ifs, breaks>>
    /\ UNCHANGED rest

Break ==
    /\ CanOp
    /\ compiler' = break_op(compiler)
    /\ status' = Outcome(compiler')
    /\ ir' = Append(ir, <<"Break">>)
    /\ breaks' = IF compiler'.panic # "" THEN breaks
                 ELSE Append(breaks,
                        [ block |-> block_label(compiler),
                          idx   |-> Len(compiler.basic_blocks[Len(compiler.basic_blocks)]) + 1,
                          label |-> compiler'.basic_blocks[Len(compiler.basic_blocks)]
                                       [Len(compiler.basic_blocks[Len(compiler.basic_blocks)]) + 1][2],
                          owner |-> OwnerIn(stack) ])
    /\ UNCHANGED <<stack, loops, ifs, allocs>>
    /\ UNCHANGED rest

\* The four If arms: build the IfCompiler, then `then` or `then_or_else`.  An else
\* body is not empty: the IR must have room for one operation in it.
if_arm(tag, lhs, rhs, rhs_operand, is_eq, has_else) ==
    /\ CanNest
    /\ has_else => OpCount + 1 < limit
    /\ compiler' = IF has_else THEN then_or_else_enter(compiler)
                               ELSE then_enter(compiler)
    /\ status' = Outcome(compiler')
    /\ stack' = IF compiler'.panic # "" THEN stack
                ELSE Append(stack,
                       [ kind |-> IF has_else THEN "then_or_else.then" ELSE "then",
                         if_branching_block |-> block_label(compiler),
                         lhs |-> Var_fp(lhs), rhs |-> rhs_operand, is_eq |-> is_eq,
                         id |-> Len(ifs) + 1 ])
    /\ ir' = Append(ir, <<tag, lhs, rhs, has_else>>)
    /\ ifs' = IF compiler'.panic # "" THEN ifs
              ELSE Append(ifs,
                     [ branching |-> block_label(compiler),
                       then_start |-> block_label(compiler'),
                       else_start |-> -1, after |-> -1,
                       lhs |-> Var_fp(lhs), rhs |-> rhs_operand, is_eq |-> is_eq,
                       has_else |-> has_else,
                       first_op |-> Len(ir) + 1, last_op |-> 0, pos |-> 0 ])
    /\ UNCHANGED <<loops, breaks, allocs>>
    /\ UNCHANGED rest

IfEq(lhs, rhs, has_else) == if_arm("IfEq", lhs, rhs, Val(Var_fp(rhs)), TRUE, has_else)
IfNe(lhs, rhs, has_else) == if_arm("IfNe", lhs, rhs, Val(Var_fp(rhs)), FALSE, has_else)
IfEqI(lhs, rhs, has_else) == if_arm("IfEqI", lhs, rhs, Const(rhs), TRUE, has_else)
IfNeI(lhs, rhs, has_else) == if_arm("IfNeI", lhs, rhs, Const(rhs), FALSE, has_else)

\* The build of a then body returns into IfCompiler::then.
then_return ==
    /\ status = "building"
    /\ stack # <<>> /\ Top.kind = "then"
    /\ compiler' = then_exit(compiler, Top)
    /\ status' = Outcome(compiler')
    /\ stack' = Pop
    /\ ir' = Append(ir, <<"End">>)
    /\ ifs' = IF compiler'.panic # "" THEN ifs
              ELSE [ifs EXCEPT ![Top.id].after = block_label(compiler'),
                               ![Top.id].last_op = Len(ir) + 1,
                               ![Top.id].pos =
                                   Len(compiler'.basic_blocks[Top.if_branching_block + 1])]
    /\ UNCHANGED <<loops, breaks, allocs>>
    /\ UNCHANGED rest

\* The build of the then body returns into IfCompiler::then_or_else.
then_f_return ==
    /\ status = "building"
    /\ stack # <<>> /\ Top.kind = "then_or_else.then"
    /\ OpCount < limit
    /\ compiler' = then_or_else_mid(compiler)
    /\ stack' = Append(Pop,
            [ kind |-> "then_or_else.else",
              if_branching_block |-> Top.if_branching_block,
              lhs |-> Top.lhs, rhs |-> Top.rhs, is_eq |-> Top.is_eq,
              id |-> Top.id,
              last_if_block |-> block_label(compiler),
              else_block |-> block_label(compiler'),
              first_op |-> Len(ir) + 2 ])
    /\ ir' = Append(ir, <<"End">>)
    /\ ifs' = [ifs EXCEPT ![Top.id].else_start = block_label(compiler')]
    /\ UNCHANGED <<status, loops, breaks, allocs>>
    /\ UNCHANGED rest

\* The build of the (non-empty) else body returns into IfCompiler::then_or_else.
else_f_return ==
    /\ status = "building"
    /\ stack # <<>> /\ Top.kind = "then_or_else.else"
    /\ Len(ir) >= Top.first_op
    /\ compiler' = then_or_else_exit(compiler, Top)
    /\ status' = Outcome(compiler')
    /\ stack' = Pop
    /\ ir' = Append(ir, <<"End">>)
    /\ ifs' = IF compiler'.panic # "" THEN ifs
              ELSE [ifs EXCEPT ![Top.id].after = block_label(compiler'),
                               ![Top.id].last_op = Len(ir) + 1,
                               ![Top.id].pos =
                                   Len(compiler'.basic_blocks[Top.if_branching_block + 1])]
    /\ UNCHANGED <<loops, breaks, allocs>>
    /\ UNCHANGED rest

\* DslIR::For: build the ForCompiler, for_each up to the loop body.
For(start, end, step_size, loop_var) ==
    /\ CanNest
    /\ compiler' = for_each_enter(compiler, start, loop_var)
    /\ status' = Outcome(compiler')
    /\ stack' = IF compiler'.panic # "" THEN stack
                ELSE Append(stack,
                       [ kind |-> "for_each",
                         loop_call_label |-> block_label(compiler),
                         break_label |-> compiler.break_counter,
                         loop_label |-> block_label(compiler'),
                         start |-> start, end |-> end, step_size |-> step_size,
                         loop_var |-> loop_var,
                         id |-> Len(loops) + 1 ])
    /\ ir' = Append(ir, <<"For", start, end, step_size, loop_var>>)
    /\ loops' = IF compiler'.panic # "" THEN loops
                ELSE Append(loops,
                       [ call |-> block_label(compiler),
                         pos |-> Len(compiler.basic_blocks[Len(compiler.basic_blocks)]) + 1,
                         label |-> compiler.break_counter,
                         body |-> block_label(compiler'),
                         cond |-> -1, after |-> -1,
                         start |-> start, end |-> end, step_size |-> step_size,
                         loop_var |-> loop_var,
                         parent |-> OwnerIn(stack),
                         first_op |-> Len(ir) + 1, last_op |-> 0 ])
    /\ UNCHANGED <<ifs, breaks, allocs>>
    /\ UNCHANGED rest

\* Mutant: the loop body never returns, the compiler stays in the loop.
for_f_return_never ==
    /\ status = "building"
    /\ stack # <<>> /\ Top.kind = "for_each"
    /\ UNCHANGED vars

\* The build of the loop body returns into ForCompiler::for_each.
for_f_return ==
    /\ status = "building"
    /\ stack # <<>> /\ Top.kind = "for_each"
    /\ compiler' = for_each_exit(compiler, Top)
    /\ status' = Outcome(compiler')
    /\ stack' = Pop
    /\ ir' = Append(ir, <<"End">>)
    /\ loops' = [loops EXCEPT ![Top.id].cond = block_label(compiler') - 1,
                              ![Top.id].after = block_label(compiler'),
                              ![Top.id].last_op = Len(ir) + 1]
    /\ UNCHANGED <<ifs, breaks, allocs>>
    /\ UNCHANGED rest

\* The labels that the user of the compiler has taken with new_break_label.
LabelCalls == compiler.break_counter - Len(loops)

\* A call of the public new_break_label by the user of the compiler, before
\* a top-level build or after one.
NewBreakLabel ==
    /\ status \in {"new", "done"}
    /\ vm.state = "idle"
    /\ LabelCalls < MaxLabelCalls
    /\ compiler' = new_break_label(compiler)
    /\ UNCHANGED <<stack, status, ir, loops, ifs, breaks, allocs>>
    /\ UNCHANGED rest

\* The calls of the public alloc that the user of the compiler has made on the
\* compiler itself; their records in the history name no operation of the IR.
AllocCalls == Cardinality({n \in DOMAIN allocs : allocs[n].op = 0})

\* A call of the public alloc by the user of the compiler, before a top-level
\* build or after one: the instructions go to the current block, and no build
\* is entered, so no heap-pointer load is emitted by the call.
AllocCall(ptr, len, size) ==
    /\ status \in {"new", "done"}
    /\ vm.state = "idle"
    /\ AllocCalls < MaxAllocCalls
    /\ compiler' = alloc(compiler, ptr, len, size)
    /\ status' = IF compiler'.panic # "" THEN "aborted" ELSE status
    /\ allocs' = IF compiler'.panic # "" THEN allocs
                 ELSE Append(allocs,
                        [ block |-> block_label(compiler),
                          idx   |-> Len(compiler.basic_blocks[Len(compiler.basic_blocks)]) + 1,
                          ptr   |-> ptr, len |-> len, size |-> size,
                          op    |-> 0 ])
    /\ UNCHANGED <<stack, ir, loops, ifs, breaks>>
    /\ UNCHANGED rest

(* The inputs of Spec: every shape of nesting up to the bounds, with the   *)
(* operands of the end-to-end example of the specification.                *)
Next ==
    \/ build
    \/ build_return
    \/ NewBreakLabel
    \/ \E a \in {<<0, 5>>, <<1, 3>>} : ImmV(a[1], a[2])
    \/ Break
    \/ \E has_else \in BOOLEAN : IfEq(0, 1, has_else)
    \/ then_return
    \/ then_f_return
    \/ else_f_return
    \/ For(UConst(0), UConst(4), 1, 2)
    \/ For(UVar(0), UVar(1), 2, 3)
    \/ for_f_return

Spec == Init /\ [][Next]_vars

---------------------------------------------------------------------------
(* The machine that interprets the block list: one instruction per step,   *)
(* blocks falling through to the next one.  The fields of F are kept as    *)
(* naturals below P.                                                       *)

goto(m, label) ==
    IF label + 1 \in DOMAIN compiler.basic_blocks
    THEN [m EXCEPT !.block = label, !.idx = 1]
    ELSE [m EXCEPT !.state = "stuck"]

branch_if(m, cond, label) == IF cond THEN goto(m, label) ELSE [m EXCEPT !.idx = @ + 1]

store(m, dst, v) == [m EXCEPT !.mem[dst] = v, !.idx = @ + 1]

execute(m, instruction) ==
    LET t == instruction[1]
        a == instruction[2]
    IN CASE t = "ImmF" -> store(m, a, instruction[3])
         [] t = "AddF" -> store(m, a, FAdd(m.mem[instruction[3]], m.mem[instruction[4]]))
         [] t = "AddFI" -> store(m, a, FAdd(m.mem[instruction[3]], instruction[4]))
         [] t = "MulFI" -> store(m, a, FMul(m.mem[instruction[3]], instruction[4]))
         [] t = "Bne" -> branch_if(m, m.mem[instruction[3]] # m.mem[instruction[4]], a)
         [] t = "BneI" -> branch_if(m, m.mem[instruction[3]] # instruction[4], a)
         [] t = "Beq" -> branch_if(m, m.mem[instruction[3]] = m.mem[instruction[4]], a)
         [] t = "BeqI" -> branch_if(m, m.mem[instruction[3]] = instruction[4], a)
         [] t = "ImmE" -> store(m, a, instruction[3])
         [] t = "BneE" -> branch_if(m, m.mem[instruction[3]] # m.mem[instruction[4]], a)
         [] t = "BneEI" -> branch_if(m, m.mem[instruction[3]] # instruction[4], a)
         [] t = "BeqE" -> branch_if(m, m.mem[instruction[3]] = m.mem[instruction[4]], a)
         [] t = "BeqEI" -> branch_if(m, m.mem[instruction[3]] = instruction[4], a)
         [] t = "BneInc" ->
              LET v == FAdd(m.mem[instruction[3]], 1)
                  m1 == [m EXCEPT !.mem[instruction[3]] = v]
              IN branch_if(m1, v # m.mem[instruction[4]], a)
         [] t = "BneIInc" ->
              LET v == FAdd(m.mem[instruction[3]], 1)
                  m1 == [m EXCEPT !.mem[instruction[3]] = v]
              IN branch_if(m1, v # instruction[4], a)
         [] t = "SubFIN" -> store(m, a, FSub(instruction[3], m.mem[instruction[4]]))
         [] t = "SubEIN" -> store(m, a, ESub(instruction[3], m.mem[instruction[4]]))
         [] t = "DivFIN" ->
              IF m.mem[instruction[4]] = 0 THEN [m EXCEPT !.state = "stuck"]
              ELSE store(m, a, FMul(instruction[3], FInv(m.mem[instruction[4]])))
         [] t = "DivEIN" ->
              IF m.mem[instruction[4]] = EZero THEN [m EXCEPT !.state = "stuck"]
              ELSE store(m, a, EMul(instruction[3], EInv(m.mem[instruction[4]])))
         [] t = "j" -> goto(m, a)
         [] t = "Trap" -> [m EXCEPT !.state = "trapped"]
         [] t = "Break" -> [m EXCEPT !.state = "stuck"]

\* What the IR says of the operation compiled at the place the machine is at.
IfsHere == {k \in DOMAIN ifs : ifs[k].branching = vm.block /\ ifs[k].pos = vm.idx}
LoopsHere == {k \in DOMAIN loops : loops[k].call = vm.block /\ loops[k].pos = vm.idx}
AllocsHere == {n \in DOMAIN allocs : allocs[n].block = vm.block /\ allocs[n].idx = vm.idx}
Operand(rhs) == IF rhs[1] = "Const" THEN rhs[2] ELSE vm.mem[rhs[2]]
Holds(k) == (vm.mem[ifs[k].lhs] = Operand(ifs[k].rhs)) <=> ifs[k].is_eq
Length(len) == IF len[1] = "Const" THEN len[2] ELSE vm.mem[Var_fp(len[2])]

\* The built block list is handed to the machine.
run_begin ==
    /\ status = "done"
    /\ vm.state = "idle"
    /\ vm' = [vm EXCEPT !.state = "running"]
    /\ tally' = [ visits  |-> [b \in DOMAIN compiler.basic_blocks |->
                                  IF b = 1 THEN 1 ELSE 0],
                  entered |-> [k \in DOMAIN loops |-> 0],
                  held    |-> [k \in DOMAIN ifs |-> 0],
                  failed  |-> [k \in DOMAIN ifs |-> 0],
                  trail   |-> <<>> ]
    /\ UNCHANGED <<compiler, stack, status, ir, loops, ifs, breaks, allocs, limit,
                   probe, challenger>>

\* The instruction at the program counter is executed.
run_step ==
    /\ vm.state = "running"
    /\ vm.idx <= Len(compiler.basic_blocks[vm.block + 1])
    /\ vm.steps < MaxSteps
    /\ LET instruction == compiler.basic_blocks[vm.block + 1][vm.idx]
           m == execute(vm, instruction)
           jumped == m.state = "running" /\ m.idx = 1
       IN /\ vm' = [m EXCEPT !.steps = @ + 1]
          /\ tally' =
               [ visits  |-> [b \in DOMAIN tally.visits |->
                                 IF jumped /\ b = m.block + 1
                                 THEN tally.visits[b] + 1 ELSE tally.visits[b]],
                 entered |-> [k \in DOMAIN tally.entered |->
                                 IF k \in LoopsHere
                                 THEN tally.entered[k] + 1 ELSE tally.entered[k]],
                 held    |-> [k \in DOMAIN tally.held |->
                                 IF k \in IfsHere /\ Holds(k)
                                 THEN tally.held[k] + 1 ELSE tally.held[k]],
                 failed  |-> [k \in DOMAIN tally.failed |->
                                 IF k \in IfsHere /\ ~Holds(k)
                                 THEN tally.failed[k] + 1 ELSE tally.failed[k]],
                 trail   |-> IF AllocsHere = {} THEN tally.trail
                             ELSE LET n == CHOOSE x \in AllocsHere : TRUE
                                  IN Append(tally.trail,
                                        [ alloc |-> n,
                                          ptr   |-> m.mem[Ptr_fp(allocs[n].ptr)],
                                          bytes |-> FMul(Length(allocs[n].len),
                                                         allocs[n].size) ]) ]
    /\ UNCHANGED <<compiler, stack, status, ir, loops, ifs, breaks, allocs, limit,
                   probe, challenger>>

\* The end of a block falls through to the next block; after the last one the
\* program is over.
run_next_block ==
    /\ vm.state = "running"
    /\ vm.idx > Len(compiler.basic_blocks[vm.block + 1])
    /\ IF vm.block + 1 < Len(compiler.basic_blocks)
       THEN /\ vm' = [vm EXCEPT !.block = @ + 1, !.idx = 1]
            /\ tally' = [tally EXCEPT !.visits[vm.block + 2] = @ + 1]
       ELSE /\ vm' = [vm EXCEPT !.state = "halted"]
            /\ tally' = tally
    /\ UNCHANGED <<compiler, stack, status, ir, loops, ifs, breaks, allocs, limit,
                   probe, challenger>>

Run == run_begin \/ run_step \/ run_next_block

(* Loops: constant ranges (well-formed, empty, and end below start) of unit *)
(* step, nested on the same or on another loop variable, with and without  *)
(* Break.                                                                  *)
NextFor ==
    \/ build
    \/ build_return
    \/ NewBreakLabel
    \/ ImmV(0, 5)
    \/ Break
    \/ \E r \in {<<0, 2>>, <<1, 1>>, <<2, 0>>}, loop_var \in {2, 3} :
          For(UConst(r[1]), UConst(r[2]), 1, loop_var)
    \/ for_f_return
    \/ Run

SpecFor == Start(MaxRunOps) /\ [][NextFor]_vars

(* Conditionals: the four If operations, with and without else, on a value *)
(* that is loaded or left at 0 and on a value that is incremented or is a  *)
(* loop variable.                                                          *)
NextIf ==
    \/ build
    \/ build_return
    \/ NewBreakLabel
    \/ ImmV(0, 5)
    \/ AddVI(2, 2, 1)
    \/ Error
    \/ \E has_else \in BOOLEAN : IfEq(0, 1, has_else)
    \/ \E has_else \in BOOLEAN : IfNe(0, 1, has_else)
    \/ \E has_else \in BOOLEAN : IfEqI(2, 3, has_else)
    \/ \E has_else \in BOOLEAN : IfNeI(2, 3, has_else)
    \/ then_return
    \/ then_f_return
    \/ else_f_return
    \/ For(UConst(2), UConst(4), 1, 2)
    \/ for_f_return
    \/ Run

SpecIf == Start(MaxRunOps) /\ [][NextIf]_vars

(* Allocations: constant and variable lengths, in sequence and in loops.   *)
NextAlloc ==
    \/ build
    \/ build_return
    \/ vm.state = "idle" /\ build_again
    \/ NewBreakLabel
    \/ \E a \in {<<1, UConst(2), 4>>, <<3, UVar(0), 1>>} : AllocCall(a[1], a[2], a[3])
    \/ ImmV(0, 5)
    \/ \E a \in {<<1, UConst(2), 4>>, <<3, UConst(3), 1>>, <<1, UVar(0), 4>>} :
          Alloc(a[1], a[2], a[3])
    \/ IfEqI(0, 5, FALSE)
    \/ then_return
    \/ For(UConst(0), UConst(2), 1, 2)
    \/ for_f_return
    \/ Run

SpecAlloc == Start(MaxAllocOps) /\ [][NextAlloc]_vars

---------------------------------------------------------------------------
(* Operand addressing on its own: two values (kind, index) are drawn, and  *)
(* fp is applied to the first and then to the second.                      *)

Kinds == {"Var", "Felt", "Ext"}
Values == Kinds \X (0 .. MaxIndex)

fp(value) ==
    CASE value[1] = "Var" -> Var_fp(value[2])
      [] value[1] = "Felt" -> Felt_fp(value[2])
      [] value[1] = "Ext" -> Ext_fp(value[2])

InitFp ==
    /\ Machine(0)
    /\ \E a \in Values, b \in Values : probe = [a |-> a, b |-> b, fp |-> <<>>]

address ==
    /\ Len(probe.fp) < 2
    /\ probe' = [probe EXCEPT !.fp =
                    Append(@, fp(IF Len(@) = 0 THEN probe.a ELSE probe.b))]
    /\ UNCHANGED <<compiler, stack, status, ir, loops, ifs, breaks, allocs, limit,
                   vm, tally, challenger>>

SpecFp == InitFp /\ [][address]_vars

\* C6: the address function is injective over (kind, index): equal addresses
\* are addresses of the same kind and the same index.
C6_AddressInjective ==
    (Len(probe.fp) = 2 /\ probe.fp[1] = probe.fp[2]) => probe.a = probe.b

C6_Witness ==
    /\ Len(probe.fp) = 2
    /\ probe.a = <<"Var", MaxIndex - 1>>
    /\ probe.b = <<"Ext", MaxIndex>>
    /\ probe.fp[1] # probe.fp[2]

---------------------------------------------------------------------------
(* Properties of the block list. *)

Blocks == compiler.basic_blocks
Tag(instruction) == instruction[1]
BranchTags ==
    {"Bne", "BneI", "Beq", "BeqI", "BneE", "BneEI", "BeqE", "BeqEI", "BneInc",
     "BneIInc", "j"}
Instructions == UNION {{<<b, i>> : i \in DOMAIN Blocks[b]} : b \in DOMAIN Blocks}
HasTag(tags) == \E p \in Instructions : Tag(Blocks[p[1]][p[2]]) \in tags

\* C1: every Break compiled in the body of a loop is, once that loop is
\* compiled, an unconditional jump to the after-loop block of the innermost
\* For whose body contains it.
C1_BreakJumpsToInnermost ==
    \A n \in DOMAIN breaks :
        LET br == breaks[n] IN
        (br.owner # 0 /\ loops[br.owner].after # -1)
            => Blocks[br.block + 1][br.idx] = j(loops[br.owner].after)

\* C4: at every point of the compilation every conditional branch, fused
\* increment-branch and jump has a target label t with 0 <= t < number of blocks.
C4_TargetsInRange ==
    \A p \in Instructions :
        LET instruction == Blocks[p[1]][p[2]] IN
        Tag(instruction) \in BranchTags
            => (0 <= instruction[2] /\ instruction[2] < Len(Blocks))

C4_Witness ==
    /\ status = "done"
    /\ HasTag({"Bne"})
    /\ HasTag({"BneIInc"})
    /\ \E n \in DOMAIN breaks : Tag(Blocks[breaks[n].block + 1][breaks[n].idx]) = "j"

\* C5: when the top-level build has returned, no block holds a Break marker.
C5_NoBreakMarkerLeft ==
    status = "done" => ~HasTag({"Break"})

C8_IR ==
    << <<"ImmV", 0, 5>>, <<"ImmV", 1, 3>>, <<"IfEq", 0, 1, FALSE>>, <<"Break">>,
       <<"End">>, <<"For", UConst(0), UConst(4), 1, 2>>, <<"AddVI", 2, 2, 1>>,
       <<"End">> >>
IsPrefix(s, t) == Len(s) <= Len(t) /\ s = SubSeq(t, 1, Len(s))

\* C8 as stated: on a fresh compiler the end-to-end IR compiles without abort,
\* into the six blocks of the single-branch If layout followed by the For
\* layout.
C8_CompilesToLayout ==
    (LabelCalls = 0 /\ IsPrefix(ir, C8_IR)) =>
        /\ status # "aborted"
        /\ (ir = C8_IR /\ stack = <<>>) =>
              /\ Len(Blocks) = 6
              /\ Blocks[1][4] = Bne(2, Var_fp(0), Var_fp(1))
              /\ Blocks[3][2] = j(4)
              /\ Blocks[4][2] = BneIInc(3, Var_fp(2), 4)

\* C8, amended: on a fresh compiler (no label taken with new_break_label before
\* build), the end-to-end IR aborts with "No break label set" at the Break
\* of the then body (no loop is active); block 0 holds the heap-pointer load and
\* the two immediate loads, the then block 1 is empty, and nothing after the
\* Break is compiled.
C8_AbortsAtBreak ==
    (LabelCalls = 0 /\ Len(ir) >= 4 /\ SubSeq(ir, 1, 4) = SubSeq(C8_IR, 1, 4)) =>
        /\ status = "aborted"
        /\ compiler.panic = "No break label set"
        /\ Len(ir) = 4
        /\ Blocks = << <<ImmF(HEAP_PTR, STACK_SIZE + 4), ImmF(Var_fp(0), 5),
                         ImmF(Var_fp(1), 3)>>, <<>> >>

C8_Witness == LabelCalls = 0 /\ ir = SubSeq(C8_IR, 1, 4)

\* One step keeps the block list append-only, but for a Break marker
\* replaced by a jump at its position.
AppendOnlyStep ==
    LET old == compiler.basic_blocks
        now == compiler'.basic_blocks
    IN /\ Len(now) >= Len(old)
       /\ \A b \in DOMAIN old :
            /\ Len(now[b]) >= Len(old[b])
            /\ \A i \in DOMAIN old[b] :
                 \/ now[b][i] = old[b][i]
                 \/ Tag(old[b][i]) = "Break" /\ Tag(now[b][i]) = "j"

\* C10: across every step of the compilation the block list is append-only: no
\* block is removed, merged or reordered, instructions keep their content and
\* position, and the only in-place change is a Break marker replaced by a jump.
C10_AppendOnly == [][AppendOnlyStep]_vars

C10_Witness ==
    /\ Len(Blocks) >= 4
    /\ \E n \in DOMAIN breaks : Tag(Blocks[breaks[n].block + 1][breaks[n].idx]) = "j"
    /\ HasTag({"Break"})

---------------------------------------------------------------------------
(* Properties of the interpretation of the compiled blocks. *)

Visits(block) == tally.visits[block + 1]
Max(a, b) == IF a >= b THEN a ELSE b

\* The IR operation writes the Var of index v.
Writes(op, v) ==
    \/ op[1] \in {"ImmV", "AddVI", "Alloc"} /\ op[2] = v
    \/ op[1] = "For" /\ op[5] = v

\* Loop k is compiled, has step 1 and constant bounds, and its body neither
\* writes the loop variable nor breaks.
PlainLoop(k) ==
    /\ loops[k].after # -1
    /\ loops[k].step_size = 1
    /\ loops[k].start[1] = "Const" /\ loops[k].end[1] = "Const"
    /\ \A i \in (loops[k].first_op + 1) .. (loops[k].last_op - 1) :
          ~Writes(ir[i], loops[k].loop_var)
    /\ \A n \in DOMAIN breaks : breaks[n].owner # k

\* Every time loop k was entered its body ran `times` times, and never more;
\* once the program is over, control has reached the after-loop block each time.
BodyRuns(k, times) ==
    /\ Visits(loops[k].body) <= tally.entered[k] * times
    /\ vm.state = "halted" =>
          /\ Visits(loops[k].body) = tally.entered[k] * times
          /\ Visits(loops[k].after) = tally.entered[k]

\* C2 as stated: a For with step 1 and constant bounds, whose body neither
\* writes the loop variable nor breaks, runs its body max(end - start, 0) times
\* (0 times when end <= start) and continues at the after-loop block.
C2_BodyRunsMaxTimes ==
    vm.state # "idle" =>
        \A k \in DOMAIN loops :
            PlainLoop(k) =>
                BodyRuns(k, Max(loops[k].end[2] - loops[k].start[2], 0))

\* C2, amended: when start <= end, such a For runs its body end - start times
\* and continues at the after-loop block.
C2_BodyRunsEndMinusStart ==
    vm.state # "idle" =>
        \A k \in DOMAIN loops :
            (PlainLoop(k) /\ loops[k].start[2] <= loops[k].end[2]) =>
                BodyRuns(k, loops[k].end[2] - loops[k].start[2])

C2_Witness ==
    /\ vm.state = "halted"
    /\ \E k \in DOMAIN loops :
          /\ PlainLoop(k)
          /\ loops[k].end[2] - loops[k].start[2] = 2
          /\ tally.entered[k] = 2
          /\ Visits(loops[k].body) = 4

\* If k is compiled and its bodies hold no Break.
PlainIf(k) ==
    /\ ifs[k].after # -1
    /\ \A i \in ifs[k].first_op .. ifs[k].last_op : ir[i][1] # "Break"

\* C3: for an If without Break, the then body runs iff the condition holds, the
\* else body iff it does not, never both, and both ways reach the after-if block.
C3_ExactlyOnePath ==
    vm.state # "idle" =>
        \A k \in DOMAIN ifs :
            PlainIf(k) =>
                /\ Visits(ifs[k].then_start) <= tally.held[k]
                /\ ifs[k].has_else => Visits(ifs[k].else_start) <= tally.failed[k]
                /\ Visits(ifs[k].after) <= tally.held[k] + tally.failed[k]
                /\ vm.state = "halted" =>
                      /\ Visits(ifs[k].then_start) = tally.held[k]
                      /\ ifs[k].has_else =>
                            Visits(ifs[k].else_start) = tally.failed[k]
                      /\ Visits(ifs[k].after) = tally.held[k] + tally.failed[k]

C3_Witness ==
    /\ vm.state = "halted"
    /\ \E k \in DOMAIN ifs :
          /\ PlainIf(k)
          /\ ifs[k].has_else
          /\ tally.held[k] = 1 /\ tally.failed[k] = 1
          /\ Visits(ifs[k].else_start) = 1
          /\ Visits(ifs[k].after) = 2

ConstantLengths == \A n \in DOMAIN allocs : allocs[n].len[1] = "Const"
\* The machine is between the instructions of an Alloc.
InsideAlloc ==
    \E n \in DOMAIN allocs :
        /\ allocs[n].block = vm.block
        /\ vm.idx > allocs[n].idx
        /\ vm.idx <= allocs[n].idx + 1

\* C7: with constant lengths, each Alloc binds ptr to the heap pointer of that
\* moment and advances the heap pointer by L*S: the first ptr is STACK_SIZE + 4
\* and every later one is the previous ptr plus the previous L*S.  The Allocs of
\* the program are those of its top-level builds and of the calls of alloc on
\* the compiler.
C7_AllocAdvances ==
    (ConstantLengths /\ vm.state # "idle") =>
        /\ \A i \in DOMAIN tally.trail :
              tally.trail[i].ptr =
                 IF i = 1 THEN STACK_SIZE + 4
                 ELSE tally.trail[i - 1].ptr + tally.trail[i - 1].bytes
        /\ (tally.trail # <<>> /\ ~InsideAlloc) =>
              vm.mem[HEAP_PTR] =
                 tally.trail[Len(tally.trail)].ptr + tally.trail[Len(tally.trail)].bytes

---------------------------------------------------------------------------
(* Operations the dispatcher refuses, and the operations on arrays, which  *)
(* it accepts for a dynamic array (Array::Dyn) only.                       *)

Dyn(ptr) == <<"Dyn", ptr>>
Fixed == <<"Fixed">>

HintBits(dst, src) == <<"HintBits", dst, src>>
Poseidon2Permute(dst, src) == <<"Poseidon2Permute", dst, src>>
Ext2FeltI(dst, src) == <<"Ext2Felt", dst, src>>
Hint(dst) == <<"Hint", dst>>
FriFoldI(m, ptr) == <<"FriFold", m, ptr>>
Poseidon2Compress(result, left, right) == <<"Poseidon2Compress", result, left, right>>

\* Mutant: the operation is skipped, nothing is emitted.
unimplemented_skips(c) == c

\* unimplemented!()
unimplemented(c) == [c EXCEPT !.panic = "not implemented"]

\* The arms of build for the operations on arrays: the compiler after the arm.
hint_op(c, op) ==
    LET t == op[1] IN
    CASE t = "HintBitsU" ->
            IF op[2][1] = "Dyn" /\ op[3][1] = "Var"
            THEN push(c, HintBits(Ptr_fp(op[2][2]), Var_fp(op[3][2])))
            ELSE unimplemented(c)
      [] t = "HintBitsF" ->
            IF op[2][1] = "Dyn"
            THEN push(c, HintBits(Ptr_fp(op[2][2]), Felt_fp(op[3])))
            ELSE unimplemented(c)
      [] t = "HintBitsV" ->
            IF op[2][1] = "Dyn"
            THEN push(c, HintBits(Ptr_fp(op[2][2]), Var_fp(op[3])))
            ELSE unimplemented(c)
      [] t = "Poseidon2PermuteBabyBear" ->
            IF op[2][1] = "Dyn" /\ op[3][1] = "Dyn"
            THEN push(c, Poseidon2Permute(Ptr_fp(op[2][2]), Ptr_fp(op[3][2])))
            ELSE unimplemented(c)
      [] t = "Ext2Felt" ->
            IF op[2][1] = "Dyn"
            THEN push(c, Ext2FeltI(Ptr_fp(op[2][2]), Ext_fp(op[3])))
            ELSE unimplemented(c)
      [] t \in {"HintVars", "HintFelts", "HintExts"} ->
            IF op[2][1] = "Dyn"
            THEN push(c, Hint(Ptr_fp(op[2][2])))
            ELSE unimplemented(c)
      [] t = "FriFold" ->
            IF op[3][1] = "Dyn"
            THEN push(c, FriFoldI(Var_fp(op[2]), Ptr_fp(op[3][2])))
            ELSE unimplemented(c)
      [] t = "Poseidon2CompressBabyBear" ->
            IF op[2][1] = "Dyn" /\ op[3][1] = "Dyn" /\ op[4][1] = "Dyn"
            THEN push(c, Poseidon2Compress(Ptr_fp(op[2][2]), Ptr_fp(op[3][2]),
                                           Ptr_fp(op[4][2])))
            ELSE unimplemented(c)

\* The operations whose arm is unimplemented!(); "_" is the catch-all arm.
Refused ==
    {"Num2BitsF", "Num2BitsV", "ReverseBitsLen", "TwoAdicGenerator",
     "ExpUsizeV", "ExpUsizeF", "_"}

Unimplemented(tag) ==
    /\ CanOp
    /\ compiler' = unimplemented(compiler)
    /\ status' = Outcome(compiler')
    /\ ir' = Append(ir, <<tag>>)
    /\ UNCHANGED <<stack, loops, ifs, breaks, allocs>>
    /\ UNCHANGED rest

HintOp(op) ==
    /\ CanOp
    /\ compiler' = hint_op(compiler, op)
    /\ status' = Outcome(compiler')
    /\ ir' = Append(ir, op)
    /\ UNCHANGED <<stack, loops, ifs, breaks, allocs>>
    /\ UNCHANGED rest

\* AsmCompiler::code: the finished block list is handed to the assembler.
code ==
    /\ status = "done"
    /\ status' = "assembled"
    /\ UNCHANGED <<compiler, stack, ir, loops, ifs, breaks, allocs>>
    /\ UNCHANGED rest

Arrays == {Dyn(1), Fixed}

\* The operations on arrays that are drawn.
HintOps ==
    {<<"HintBitsU", a, u>> : a \in Arrays, u \in {UVar(0), UConst(5)}}
    \cup {<<t, a, 0>> : t \in {"HintBitsF", "HintBitsV", "Ext2Felt"}, a \in Arrays}
    \cup {<<"Poseidon2PermuteBabyBear", a, b>> : a \in Arrays, b \in Arrays}
    \cup {<<t, a>> : t \in {"HintVars", "HintFelts", "HintExts"}, a \in Arrays}
    \cup {<<"FriFold", 0, a>> : a \in Arrays}
    \cup {<<"Poseidon2CompressBabyBear", a, b, c>> :
             a \in Arrays, b \in Arrays, c \in Arrays}

(* Refused operations and operations on arrays, at the top level and in the *)
(* bodies of an If and of a For, before and after other operations.        *)
NextHint ==
    \/ build
    \/ build_return
    \/ NewBreakLabel
    \/ code
    \/ ImmV(0, 5)
    \/ \E tag \in Refused : Unimplemented(tag)
    \/ \E op \in HintOps : HintOp(op)
    \/ IfEqI(0, 5, FALSE)
    \/ then_return
    \/ For(UConst(0), UConst(2), 1, 2)
    \/ for_f_return

SpecHint == Start(MaxHintOps) /\ [][NextHint]_vars

\* The IR operation is one the dispatcher does not support.
Unsupported(op) ==
    \/ op[1] \in Refused
    \/ op[1] \in {"HintBitsU", "HintBitsF", "HintBitsV", "Ext2Felt", "HintVars",
                  "HintFelts", "HintExts"} /\ op[2] = Fixed
    \/ op[1] = "Poseidon2PermuteBabyBear" /\ (op[2] = Fixed \/ op[3] = Fixed)
    \/ op[1] = "FriFold" /\ op[3] = Fixed
    \/ op[1] = "Poseidon2CompressBabyBear"
          /\ (op[2] = Fixed \/ op[3] = Fixed \/ op[4] = Fixed)

\* C11: when build reaches an unsupported operation, at any depth, it aborts
\* there: the operation is the last one visited, the compilation is aborted for
\* good, and no block list of it is handed to the assembler.
C11_UnsupportedAborts ==
    \A i \in DOMAIN ir :
        Unsupported(ir[i]) =>
            /\ i = Len(ir)
            /\ status = "aborted"
            /\ compiler.panic = "not implemented"

C11_Witness ==
    /\ status = "aborted"
    /\ Len(stack) = 2
    /\ Len(ir) = 3
    /\ ir[3] = <<"Poseidon2CompressBabyBear", Dyn(1), Fixed, Dyn(1)>>

---------------------------------------------------------------------------
(* Loops over constant ranges, well-formed, empty and with end below       *)
(* start, of unit and non-unit step, in sequence and nested.               *)

NextRange ==
    \/ build
    \/ build_return
    \/ NewBreakLabel
    \/ ImmV(0, 5)
    \/ IfEqI(0, 5, FALSE)
    \/ then_return
    \/ \E r \in {<<0, 2>>, <<1, 1>>, <<2, 0>>}, step_size \in {1, 2} :
          For(UConst(r[1]), UConst(r[2]), step_size, 2)
    \/ for_f_return

SpecRange == Start(MaxRangeOps) /\ [][NextRange]_vars

TagsOf(block) == [i \in DOMAIN block |-> Tag(block[i])]

\* What compiling loop k put into the blocks, the body apart: the instructions
\* of the loop-call block from the initialisation on, the end of the body's
\* terminal block, and the condition block.
LoopCode(k) ==
    LET call == Blocks[loops[k].call + 1]
        last == Blocks[loops[k].cond]
    IN << TagsOf(SubSeq(call, loops[k].pos, Len(call))),
          Tag(last[Len(last)]),
          TagsOf(Blocks[loops[k].cond + 1]),
          loops[k].body - loops[k].call,
          loops[k].after - loops[k].cond >>

ConstantRange(k) ==
    /\ loops[k].after # -1
    /\ loops[k].start[1] = "Const" /\ loops[k].end[1] = "Const"
Malformed(k) == ConstantRange(k) /\ loops[k].end[2] < loops[k].start[2]
WellFormed(k) == ConstantRange(k) /\ loops[k].start[2] <= loops[k].end[2]

\* C12: compiling a For whose constant end is below its constant start does not
\* abort and inserts no Trap, and what it emits has the layout and the
\* instruction kinds of a For over a well-formed range with the same step.
C12_MalformedRangeUnchecked ==
    /\ (\E k \in DOMAIN loops : loops[k].end[2] < loops[k].start[2])
          => (status # "aborted" /\ ~HasTag({"Trap"}))
    /\ \A k1 \in DOMAIN loops, k2 \in DOMAIN loops :
          (Malformed(k1) /\ WellFormed(k2)
             /\ loops[k1].step_size = loops[k2].step_size)
              => LoopCode(k1) = LoopCode(k2)

C12_Witness ==
    /\ status = "done"
    /\ \E k1 \in DOMAIN loops, k2 \in DOMAIN loops :
          /\ Malformed(k1) /\ WellFormed(k2)
          /\ loops[k1].step_size = 2 /\ loops[k2].step_size = 2
          /\ loops[k1].parent = k2
          /\ LoopCode(k1) = <<<<"ImmF", "j">>, "AddFI", <<"BneI">>, 1, 1>>

---------------------------------------------------------------------------
(* Assertions: AsmCompiler::assert and the twelve Assert arms of build.    *)

\* Mutant: the Trap is reached on the opposite outcome of the comparison.
assert_inverted(c, lhs, rhs, is_eq) ==
    LET if_branching_block == block_label(c)
        c1 == push(basic_block(c), Trap)
        c2 == basic_block(c1)
        after_if_block == block_label(c2)
    IN push_to_block(c2, if_branching_block,
                     branch(lhs, rhs, ~is_eq, after_if_block))

\* Mutant: the then block of an assertion is left empty.
assert_without_trap(c, lhs, rhs, is_eq) ==
    LET if_branching_block == block_label(c)
        c2 == basic_block(basic_block(c))
        after_if_block == block_label(c2)
    IN IF overflows(c) THEN overflow(c)
       ELSE push_to_block(c2, if_branching_block,
                          branch(lhs, rhs, is_eq, after_if_block))

\* assert: IfCompiler::then with the closure that pushes Trap.
assert(c, lhs, rhs, is_eq) ==
    LET if_branching_block == block_label(c)
        c1 == push(basic_block(c), Trap)
        c2 == basic_block(c1)
        after_if_block == block_label(c2)
    IN IF overflows(c) THEN overflow(c)
       ELSE push_to_block(c2, if_branching_block,
                          branch(lhs, rhs, is_eq, after_if_block))

\* The Assert arms of build.
assert_op(c, op) ==
    LET t == op[1]
        lhs == op[2]
        rhs == op[3]
    IN CASE t = "AssertEqV" -> assert(c, Var_fp(lhs), Val(Var_fp(rhs)), FALSE)
         [] t = "AssertEqVI" -> assert(c, Var_fp(lhs), Const(rhs), FALSE)
         [] t = "AssertNeV" -> assert(c, Var_fp(lhs), Val(Var_fp(rhs)), TRUE)
         [] t = "AssertNeVI" -> assert(c, Var_fp(lhs), Const(rhs), TRUE)
         [] t = "AssertEqF" -> assert(c, Felt_fp(lhs), Val(Felt_fp(rhs)), FALSE)
         [] t = "AssertEqFI" -> assert(c, Felt_fp(lhs), Const(rhs), FALSE)
         [] t = "AssertNeF" -> assert(c, Felt_fp(lhs), Val(Felt_fp(rhs)), TRUE)
         [] t = "AssertNeFI" -> assert(c, Felt_fp(lhs), Const(rhs), TRUE)
         [] t = "AssertEqE" -> assert(c, Ext_fp(lhs), ExtVal(Ext_fp(rhs)), FALSE)
         [] t = "AssertEqEI" -> assert(c, Ext_fp(lhs), ExtConst(rhs), FALSE)
         [] t = "AssertNeE" -> assert(c, Ext_fp(lhs), ExtVal(Ext_fp(rhs)), TRUE)
         [] t = "AssertNeEI" -> assert(c, Ext_fp(lhs), ExtConst(rhs), TRUE)

AssertEqTags ==
    {"AssertEqV", "AssertEqVI", "AssertEqF", "AssertEqFI", "AssertEqE", "AssertEqEI"}
AssertNeTags ==
    {"AssertNeV", "AssertNeVI", "AssertNeF", "AssertNeFI", "AssertNeE", "AssertNeEI"}
ImmediateTags ==
    {"AssertEqVI", "AssertNeVI", "AssertEqFI", "AssertNeFI", "AssertEqEI", "AssertNeEI"}

\* The cell of the value of kind V, F or E (the letter of the operation) and index i.
CellOf(tag, i) ==
    fp(<< CASE tag \in {"AssertEqV", "AssertEqVI", "AssertNeV", "AssertNeVI"} -> "Var"
            [] tag \in {"AssertEqF", "AssertEqFI", "AssertNeF", "AssertNeFI"} -> "Felt"
            [] tag \in {"AssertEqE", "AssertEqEI", "AssertNeE", "AssertNeEI"} -> "Ext",
          i >>)

\* An Assert operation.  The history keeps what the IR asks for: the Trap is to
\* run iff lhs = rhs for an AssertNe, iff lhs # rhs for an AssertEq.
AssertOp(op) ==
    /\ CanOp
    /\ compiler' = assert_op(compiler, op)
    /\ status' = Outcome(compiler')
    /\ ir' = Append(ir, op)
    /\ ifs' = IF compiler'.panic # "" THEN ifs
              ELSE Append(ifs,
                     [ branching |-> block_label(compiler),
                       then_start |-> block_label(compiler) + 1,
                       else_start |-> -1,
                       after |-> block_label(compiler'),
                       lhs |-> CellOf(op[1], op[2]),
                       rhs |-> IF op[1] \in ImmediateTags THEN Const(op[3])
                               ELSE Val(CellOf(op[1], op[3])),
                       is_eq |-> op[1] \in AssertNeTags,
                       has_else |-> FALSE,
                       first_op |-> Len(ir) + 1, last_op |-> Len(ir) + 1,
                       pos |-> Len(compiler'.basic_blocks[Len(compiler.basic_blocks)]) ])
    /\ UNCHANGED <<stack, loops, breaks, allocs>>
    /\ UNCHANGED rest

\* The calls of the public assert that the user of the compiler has made on the
\* compiler itself; their records in the history name no operation of the IR.
AssertCalls == Cardinality({k \in DOMAIN ifs : ifs[k].first_op = 0})

\* A call of the public assert by the user of the compiler, before a top-level
\* build or after one.  The Trap is to run iff (lhs = rhs) = is_eq.
AssertCall(lhs, rhs, is_eq) ==
    /\ status \in {"new", "done"}
    /\ vm.state = "idle"
    /\ AssertCalls < MaxAssertCalls
    /\ compiler' = assert(compiler, lhs, rhs, is_eq)
    /\ status' = IF compiler'.panic # "" THEN "aborted" ELSE status
    /\ ifs' = IF compiler'.panic # "" THEN ifs
              ELSE Append(ifs,
                     [ branching |-> block_label(compiler),
                       then_start |-> block_label(compiler) + 1,
                       else_start |-> -1,
                       after |-> block_label(compiler'),
                       lhs |-> lhs,
                       rhs |-> rhs,
                       is_eq |-> is_eq,
                       has_else |-> FALSE,
                       first_op |-> 0, last_op |-> 0,
                       pos |-> Len(compiler'.basic_blocks[Len(compiler.basic_blocks)]) ])
    /\ UNCHANGED <<stack, ir, loops, breaks, allocs>>
    /\ UNCHANGED rest

\* DslIR::ImmF
DslImmF(dst, src) ==
    /\ CanOp
    /\ compiler' = push(compiler, ImmF(Felt_fp(dst), src))
    /\ ir' = Append(ir, <<"ImmF", dst, src>>)
    /\ status' = Outcome(compiler')
    /\ UNCHANGED <<stack, loops, ifs, breaks, allocs>>
    /\ UNCHANGED rest

\* DslIR::ImmE
DslImmE(dst, src) ==
    /\ CanOp
    /\ compiler' = push(compiler, ImmE(Ext_fp(dst), src))
    /\ ir' = Append(ir, <<"ImmE", dst, src>>)
    /\ status' = Outcome(compiler')
    /\ UNCHANGED <<stack, loops, ifs, breaks, allocs>>
    /\ UNCHANGED rest

\* An element of EF that is not in F.
E1 == <<1, 2, 0, 0>>

\* The assertions that are drawn: on a Var and a Felt that are loaded or left at
\* 0, on a loop variable, and on an Ext that is loaded or left at 0.
AssertOps ==
    {<<t, 0, 1>> : t \in {"AssertEqV", "AssertNeV", "AssertEqF", "AssertNeF",
                          "AssertEqE", "AssertNeE"}}
    \cup {<<t, 2, 1>> : t \in {"AssertEqVI", "AssertNeVI"}}
    \cup {<<t, 0, 5>> : t \in {"AssertEqFI", "AssertNeFI"}}
    \cup {<<t, 0, E1>> : t \in {"AssertEqEI", "AssertNeEI"}}

NextAssert ==
    \/ build
    \/ build_return
    \/ NewBreakLabel
    \/ ImmV(0, 5)
    \/ DslImmF(0, 5)
    \/ DslImmE(0, E1)
    \/ \E op \in AssertOps : AssertOp(op)
    \/ \E is_eq \in BOOLEAN : AssertCall(Var_fp(0), Const(5), is_eq)
    \/ For(UConst(0), UConst(2), 1, 2)
    \/ for_f_return
    \/ Run

SpecAssert == Start(MaxAssertOps) /\ [][NextAssert]_vars

\* Construct k is an assertion: an Assert operation of the IR, or a call of
\* assert on the compiler.
IsAssert(k) ==
    \/ ifs[k].first_op = 0
    \/ ir[ifs[k].first_op][1] \in AssertEqTags \cup AssertNeTags

\* C13: the Trap of an assertion is executed iff the assertion fails (lhs # rhs
\* for an AssertEq, lhs = rhs for an AssertNe; (lhs = rhs) = is_eq for a call of
\* assert on the compiler); when it holds, the Trap block is skipped and
\* execution continues in the after-block.  held counts the executions of the
\* branch where the assertion fails, failed those where it holds.
C13_TrapIffAssertionFails ==
    vm.state # "idle" =>
        /\ \A k \in DOMAIN ifs :
              IsAssert(k) =>
                 /\ Visits(ifs[k].after) = tally.failed[k]
                 /\ Visits(ifs[k].then_start) <= tally.held[k]
                 /\ tally.held[k] >= 1 =>
                       /\ vm.state # "halted"
                       /\ vm.block \in {ifs[k].branching, ifs[k].then_start}
        /\ vm.state = "trapped" =>
              \E k \in DOMAIN ifs :
                 /\ IsAssert(k)
                 /\ vm.block = ifs[k].then_start
                 /\ tally.held[k] = 1

C13_Witness ==
    /\ vm.state = "trapped"
    /\ \E k \in DOMAIN ifs, n \in DOMAIN ifs :
          /\ ifs[k].first_op > 0 /\ ifs[n].first_op > 0
          /\ ir[ifs[k].first_op] = <<"AssertNeVI", 2, 1>>
          /\ tally.failed[k] = 1 /\ tally.held[k] = 1
          /\ ir[ifs[n].first_op] = <<"AssertNeEI", 0, E1>>
          /\ tally.failed[n] = 2

---------------------------------------------------------------------------
(* The heap pointer: allocations of constant length and of a length held   *)
(* in a Var, which is any element of F (5, and P - 1, that is -1).         *)

NextHeap ==
    \/ build
    \/ build_return
    \/ NewBreakLabel
    \/ \E v \in {5, P - 1} : ImmV(0, v)
    \/ \E a \in {<<1, UConst(2), 4>>, <<1, UVar(0), 4>>, <<3, UVar(0), 1>>} :
          Alloc(a[1], a[2], a[3])
    \/ \E a \in {<<1, UConst(2), 4>>, <<3, UVar(0), 1>>} : AllocCall(a[1], a[2], a[3])
    \/ For(UConst(0), UConst(2), 1, 2)
    \/ for_f_return
    \/ Run

SpecHeap == Start(MaxHeapOps) /\ [][NextHeap]_vars

\* The instruction writes the cell a.
WritesCell(instruction, a) ==
    \/ Tag(instruction) \in {"ImmF", "ImmE", "AddF", "AddFI", "MulFI"}
          /\ instruction[2] = a
    \/ Tag(instruction) \in {"BneInc", "BneIInc"} /\ instruction[3] = a

\* The instructions of Alloc n other than the copy of the heap pointer.
AdvanceOf(n) ==
    {<<allocs[n].block + 1, i>> :
        i \in (allocs[n].idx + 1) ..
              (allocs[n].idx + (IF allocs[n].len[1] = "Const" THEN 1 ELSE 2))}

\* Only the initial load, which build emits into block 0, and the instructions
\* of an Alloc write HEAP_PTR.
HeapWriters ==
    \A p \in Instructions :
        WritesCell(Blocks[p[1]][p[2]], HEAP_PTR) =>
            \/ p[1] = 1 /\ Blocks[p[1]][p[2]] = ImmF(HEAP_PTR, STACK_SIZE + 4)
            \/ \E n \in DOMAIN allocs : p \in AdvanceOf(n)

HeapNeverDecreases == vm'.mem[HEAP_PTR] >= vm.mem[HEAP_PTR]

\* C14: HEAP_PTR is written only by the initial load and by the
\* instructions of an Alloc, and along every execution its value never decreases.
C14_HeapNeverDecreases == []HeapWriters /\ [][HeapNeverDecreases]_vars

---------------------------------------------------------------------------
(* The layout of the blocks: the four If operations with and without else, *)
(* loops of constant and variable bounds and of unit and non-unit step,    *)
(* Break and Error, at the top level and nested in one another.            *)

NextLayout ==
    \/ build
    \/ build_return
    \/ NewBreakLabel
    \/ ImmV(0, 5)
    \/ Break
    \/ Error
    \/ \E has_else \in BOOLEAN : IfEq(0, 1, has_else)
    \/ \E has_else \in BOOLEAN : IfNe(0, 1, has_else)
    \/ \E has_else \in BOOLEAN : IfEqI(2, 3, has_else)
    \/ \E has_else \in BOOLEAN : IfNeI(2, 3, has_else)
    \/ then_return
    \/ then_f_return
    \/ else_f_return
    \/ \E r \in {<<UConst(0), UConst(2), 1>>, <<UVar(0), UVar(1), 1>>,
                 <<UConst(0), UVar(1), 2>>, <<UVar(0), UConst(2), 2>>} :
          For(r[1], r[2], r[3], 2)
    \/ for_f_return

SpecLayout == Start(MaxLayoutOps) /\ [][NextLayout]_vars

ConditionalTags == BranchTags \ {"j"}

\* The branch on the negation of the condition of If k, to the block target.
NegatedBranch(k, target) ==
    LET tag == ir[ifs[k].first_op][1]
        negated == CASE tag = "IfEq" -> "Bne"
                     [] tag = "IfNe" -> "Beq"
                     [] tag = "IfEqI" -> "BneI"
                     [] tag = "IfNeI" -> "BeqI"
    IN <<negated, target, ifs[k].lhs, ifs[k].rhs[2]>>

\* The conditional branches of block b (b is the label of the block).
ConditionalsOf(b) ==
    {i \in DOMAIN Blocks[b + 1] : Tag(Blocks[b + 1][i]) \in ConditionalTags}

\* If k has an empty else body and IfCompiler::then has returned.
SingleBranch(k) == ~ifs[k].has_else /\ ifs[k].after # -1

ThenLayout(k) ==
    LET B == Blocks[ifs[k].branching + 1]
    IN /\ ifs[k].then_start = ifs[k].branching + 1
       /\ Len(B) > 0
       /\ B[Len(B)] = NegatedBranch(k, ifs[k].after)
       /\ Cardinality(ConditionalsOf(ifs[k].branching)) = 1

\* The step in which IfCompiler::then returns for If k: one block is created,
\* it is the last and the current one, and the only other change of the block
\* list is the branch appended to the branching block.
ThenPatches ==
    \A k \in DOMAIN ifs :
        (~ifs[k].has_else /\ ifs[k].after = -1 /\ ifs'[k].after # -1) =>
            /\ Len(Blocks') = Len(Blocks) + 1
            /\ ifs'[k].after = Len(Blocks') - 1
            /\ block_label(compiler') = ifs'[k].after
            /\ Blocks'[Len(Blocks')] = <<>>
            /\ \A b \in DOMAIN Blocks :
                  Blocks'[b] = IF b = ifs[k].branching + 1
                               THEN Append(Blocks[b],
                                           NegatedBranch(k, ifs'[k].after))
                               ELSE Blocks[b]

\* C15: for an If with empty else body compiled when block B is current, the
\* then-body starts in block B+1; exactly one conditional branch is appended
\* to B and it is B's last instruction; its target is the newly created
\* after-block, the last block on return; its condition is the negation of the
\* condition of the If.
C15_SingleBranchLayout ==
    /\ [](\A k \in DOMAIN ifs : SingleBranch(k) => ThenLayout(k))
    /\ [][ThenPatches]_vars

C15_Witness ==
    \E k1, k2 \in DOMAIN ifs :
        /\ SingleBranch(k1) /\ SingleBranch(k2)
        /\ ir[ifs[k1].first_op][1] = "IfEq"
        /\ ir[ifs[k2].first_op][1] = "IfNeI"
        /\ ifs[k2].branching > 0
        /\ Len(Blocks[ifs[k1].branching + 1]) > 2
        /\ ThenLayout(k1) /\ ThenLayout(k2)

\* The last instruction of block b (b is the label of the block).
Last(b) == Blocks[b + 1][Len(Blocks[b + 1])]

\* If k has a non-empty else body and IfCompiler::then_or_else has returned.
TwoBranch(k) == ifs[k].has_else /\ ifs[k].after # -1

ThenOrElseLayout(k) ==
    LET B == ifs[k].branching
        E == ifs[k].else_start
        A == ifs[k].after
    IN /\ ifs[k].then_start = B + 1
       /\ B + 1 < E /\ E < A
       /\ Blocks[B + 1] # <<>> /\ Last(B) = NegatedBranch(k, E)
       /\ Cardinality(ConditionalsOf(B)) = 1
       /\ Blocks[E] # <<>> /\ Last(E - 1) = j(A)

\* The step in which the then body of If k has been built: the else-block is
\* created right after the terminal block of the then body, and nothing else
\* changes.
ElseOpens ==
    \A k \in DOMAIN ifs :
        (ifs[k].has_else /\ ifs[k].else_start = -1 /\ ifs'[k].else_start # -1) =>
            /\ Blocks' = Append(Blocks, <<>>)
            /\ ifs'[k].else_start = block_label(compiler) + 1
            /\ block_label(compiler') = ifs'[k].else_start

\* The step in which IfCompiler::then_or_else returns for If k: the after-block
\* A is created right after the terminal block A-1 of the else body, the
\* branching block receives the negated branch to the else-block, the terminal
\* block E-1 of the then body receives the jump to A, and no other block
\* changes (A-1 receives nothing, it falls through).
ThenOrElsePatches ==
    \A k \in DOMAIN ifs :
        (ifs[k].has_else /\ ifs[k].after = -1 /\ ifs'[k].after # -1) =>
            LET B == ifs[k].branching
                E == ifs[k].else_start
                A == ifs'[k].after
            IN /\ Len(Blocks') = Len(Blocks) + 1
               /\ A = block_label(compiler) + 1
               /\ block_label(compiler') = A
               /\ Blocks'[A + 1] = <<>>
               /\ \A b \in DOMAIN Blocks :
                     Blocks'[b] =
                        IF b = B + 1 THEN Append(Blocks[b], NegatedBranch(k, E))
                        ELSE IF b = E THEN Append(Blocks[b], j(A))
                        ELSE Blocks[b]

\* C16: for an If with non-empty else body compiled when block B is current,
\* the then-body starts in B+1; the else-body starts in a block E created right
\* after the then-body finished; B receives as last instruction a
\* negated-condition branch to E; the terminal block E-1 of the then-body
\* receives an unconditional jump to the after-block A created after the
\* else-body; the terminal block of the else-body is A-1 and receives nothing.
C16_TwoBranchLayout ==
    /\ [](\A k \in DOMAIN ifs : TwoBranch(k) => ThenOrElseLayout(k))
    /\ [][ElseOpens /\ ThenOrElsePatches]_vars

C16_Witness ==
    \E k \in DOMAIN ifs :
        /\ TwoBranch(k)
        /\ ir[ifs[k].first_op][1] = "IfNe"
        /\ ifs[k].else_start > ifs[k].then_start + 1
        /\ ifs[k].after > ifs[k].else_start + 1
        /\ ThenOrElseLayout(k)

\* The instructions of loop k: the initialisation of the loop variable, the
\* branch of the condition block, and what ends the body.
InitialisationOf(loop) ==
    IF loop.start[1] = "Const"
    THEN <<"ImmF", Var_fp(loop.loop_var), loop.start[2]>>
    ELSE <<"AddFI", Var_fp(loop.loop_var), Var_fp(loop.start[2]), 0>>

Initialisation(k) == InitialisationOf(loops[k])

ConditionBranch(k) ==
    IF loops[k].end[1] = "Const"
    THEN <<"BneI", loops[k].call + 1, Var_fp(loops[k].loop_var), loops[k].end[2]>>
    ELSE <<"Bne", loops[k].call + 1, Var_fp(loops[k].loop_var),
           Var_fp(loops[k].end[2])>>

Returned(k) == loops[k].after # -1

ForLayout(k) ==
    LET C == loops[k].call
        K == loops[k].cond
    IN /\ loops[k].body = C + 1
       /\ Len(Blocks[C + 1]) = loops[k].pos + 1
       /\ Blocks[C + 1][loops[k].pos] = Initialisation(k)
       /\ Last(C) = j(K)
       /\ C + 1 < K
       /\ Blocks[K + 1] = <<ConditionBranch(k)>>
       /\ loops[k].after = K + 1

\* The step that opens loop k: the initialisation goes to the current block C,
\* and the block of the body is created right after it.
ForOpens ==
    Len(loops') > Len(loops) =>
        LET k == Len(loops')
            C == block_label(compiler)
        IN /\ loops'[k].call = C
           /\ Len(Blocks') = Len(Blocks) + 1
           /\ block_label(compiler') = C + 1
           /\ Blocks'[C + 2] = <<>>
           /\ \A b \in DOMAIN Blocks :
                 Blocks'[b] = IF b = C + 1
                              THEN Append(Blocks[b], InitialisationOf(loops'[k]))
                              ELSE Blocks[b]

\* The step in which for_each returns for loop k: the condition block K is
\* created right after the terminal block of the body, then the after-loop
\* block K+1, which is the current one; C receives the jump to K.
ForCloses ==
    \A k \in DOMAIN loops :
        (~Returned(k) /\ Returned(k)') =>
            LET C == loops[k].call
                K == block_label(compiler) + 1
            IN /\ Len(Blocks') = Len(Blocks) + 2
               /\ loops'[k].cond = K /\ loops'[k].after = K + 1
               /\ block_label(compiler') = K + 1
               /\ Blocks'[K + 1] = <<ConditionBranch(k)>>
               /\ Blocks'[K + 2] = <<>>
               /\ Blocks'[C + 1] = Append(Blocks[C + 1], j(K))

\* C17: for a For compiled when block C is current, C receives the
\* initialisation of the loop variable (ImmF for a constant start, a copy for a
\* variable start) and then, as its last instruction, a jump to the condition
\* block; the body starts in C+1; the condition block K is created after the
\* body and holds exactly one instruction, the branch-if-not-equal
\* (loop_var, end) to C+1; the after-loop block is K+1, current on return.
C17_ForLayout ==
    /\ [](\A k \in DOMAIN loops : Returned(k) => ForLayout(k))
    /\ [][ForOpens /\ ForCloses]_vars

C17_Witness ==
    \E k1, k2 \in DOMAIN loops :
        /\ Returned(k1) /\ Returned(k2)
        /\ loops[k1].start[1] = "Const" /\ loops[k1].end[1] = "Var"
        /\ loops[k2].start[1] = "Var" /\ loops[k2].end[1] = "Const"
        /\ loops[k2].parent = k1
        /\ loops[k1].cond = loops[k2].after + 1
        /\ ForLayout(k1) /\ ForLayout(k2)

\* What for_each appends to the terminal block of the body of loop k.
BodyEnd(k) ==
    IF loops[k].step_size = 1
    THEN IF loops[k].end[1] = "Const"
         THEN <<"BneIInc", loops[k].call + 1, Var_fp(loops[k].loop_var),
                loops[k].end[2]>>
         ELSE <<"BneInc", loops[k].call + 1, Var_fp(loops[k].loop_var),
                Var_fp(loops[k].end[2])>>
    ELSE <<"AddFI", Var_fp(loops[k].loop_var), Var_fp(loops[k].loop_var),
           loops[k].step_size>>

\* The step in which for_each returns for loop k appends exactly one
\* instruction to the terminal block T of the body: the fused
\* increment-and-branch for a unit step, the add-immediate otherwise.
BodyEnds ==
    \A k \in DOMAIN loops :
        (~Returned(k) /\ Returned(k)') =>
            LET T == block_label(compiler)
            IN /\ Len(Blocks'[T + 1]) = Len(Blocks[T + 1]) + 1
               /\ Blocks'[T + 1][Len(Blocks'[T + 1])] = BodyEnd(k)

\* The loop variable of loop k is not touched by the operations drawn for the
\* bodies, so every instruction that adds to it comes from a for_each on it.
Increments(k) ==
    {p \in Instructions :
        /\ p[1] > loops[k].call + 1 /\ p[1] <= loops[k].cond
        /\ Tag(Blocks[p[1]][p[2]]) \in {"AddFI", "BneInc", "BneIInc"}
        /\ Blocks[p[1]][p[2]][IF Tag(Blocks[p[1]][p[2]]) = "AddFI" THEN 2 ELSE 3]
              = Var_fp(loops[k].loop_var)}

Innermost(k) == \A n \in DOMAIN loops : loops[n].parent # k

\* C18: a loop of step one ends its body with a single fused
\* increment-and-branch-if-not-equal to the body start (immediate form for a
\* constant end, register form for a variable end) and no separate add to the
\* loop variable; a loop of another step ends its body with exactly one
\* add-immediate loop_var += step and no fused instruction.
C18_UnitStepFused ==
    /\ [](\A k \in DOMAIN loops :
            Returned(k) =>
                /\ Last(loops[k].cond - 1) = BodyEnd(k)
                /\ Innermost(k) =>
                      Increments(k) = {<<loops[k].cond, Len(Blocks[loops[k].cond])>>})
    /\ [][BodyEnds]_vars

C18_Witness ==
    \E k1, k2 \in DOMAIN loops :
        /\ Returned(k1) /\ Returned(k2)
        /\ loops[k1].step_size = 1 /\ loops[k1].end[1] = "Var"
        /\ loops[k2].step_size = 2 /\ loops[k2].end[1] = "Var"
        /\ loops[k2].parent = k1
        /\ Last(loops[k1].cond - 1) = BodyEnd(k1)
        /\ Last(loops[k2].cond - 1) = BodyEnd(k2)

\* The instructions that transfer control, and the instructions that are not
\* the last of their block.
TransferTags == BranchTags \cup {"Break", "Trap"}
Followed(p) == p[2] < Len(Blocks[p[1]])
Transfers == {p \in Instructions : Tag(Blocks[p[1]][p[2]]) \in TransferTags}

\* The instruction at p was emitted for a Break operation of the IR.
FromBreak(p) ==
    \E n \in DOMAIN breaks : breaks[n].block + 1 = p[1] /\ breaks[n].idx = p[2]

\* C19 as stated: after any compilation, in every block no conditional branch,
\* fused increment-branch, jump, Break marker or Trap is followed by another
\* instruction of the same block.
C19_TransfersOnlyAtEnd ==
    status = "done" => \A p \in Transfers : ~Followed(p)

\* C19, amended: a conditional branch or a fused increment-branch is the last
\* instruction of its block, and so is a jump emitted for an If or a For; the
\* instructions emitted for Break (the marker, and the jump that replaces it)
\* and for Error (Trap) are followed, in the same block, by whatever is
\* compiled next, the build going on in the current block.
C19_OnlyBreakAndTrapFollowed ==
    \A p \in Transfers :
        Followed(p) => (Tag(Blocks[p[1]][p[2]]) = "Trap" \/ FromBreak(p))

C19_Witness ==
    /\ status = "done"
    /\ \E p \in Transfers, q \in Transfers :
          /\ p[1] = q[1] /\ q[2] = p[2] + 1
          /\ Tag(Blocks[p[1]][p[2]]) = "j" /\ FromBreak(p)
          /\ Tag(Blocks[q[1]][q[2]]) \in {"BneInc", "BneIInc"}
    /\ \E p \in Transfers :
          Tag(Blocks[p[1]][p[2]]) = "Trap" /\ Followed(p)

\* C20: a Break that is not inside the body of any For aborts the compilation
\* ("No break label set"), whether or not a loop was compiled earlier, and is
\* never emitted into the block list: every Break that was emitted has an
\* enclosing loop, and a Break drawn outside every loop leaves the compiler
\* aborted with that message.
C20_BreakOutsideLoopAborts ==
    /\ \A n \in DOMAIN breaks : breaks[n].owner # 0
    /\ (ir # <<>> /\ ir[Len(ir)] = <<"Break">> /\ OwnerIn(stack) = 0)
          => (status = "aborted" /\ compiler.panic = "No break label set")

---------------------------------------------------------------------------
(* Several top-level calls of build on one compiler: build is public and   *)
(* takes &mut self, so a caller can hand the operations over in several    *)
(* lists.  A "Return" token in ir separates the lists.                     *)

NextBuilds ==
    \/ build
    \/ build_return
    \/ NewBreakLabel
    \/ build_again
    \/ ImmV(0, 5)
    \/ \E a \in {<<1, UConst(2), 4>>, <<3, UVar(0), 1>>} : Alloc(a[1], a[2], a[3])
    \/ IfEqI(0, 5, FALSE)
    \/ then_return
    \/ For(UConst(0), UConst(2), 1, 2)
    \/ for_f_return

SpecBuilds == Start(MaxBuildOps) /\ [][NextBuilds]_vars

\* The instructions that load HEAP_PTR with an immediate.
HeapLoads ==
    {p \in Instructions :
        Tag(Blocks[p[1]][p[2]]) = "ImmF" /\ Blocks[p[1]][p[2]][2] = HEAP_PTR}

\* C21: over any sequence of top-level calls of build on one new compiler, the
\* heap pointer is set to STACK_SIZE + 4 exactly once, by the first
\* instruction of block 0, so that no instruction of an Alloc is followed by
\* a load of the heap pointer.
C21_HeapSetOnce ==
    status # "new" =>
        /\ HeapLoads = {<<1, 1>>}
        /\ Blocks[1][1] = ImmF(HEAP_PTR, STACK_SIZE + 4)

---------------------------------------------------------------------------
(* Negation and inversion: the NegV, NegF, NegE, InvV, InvF and InvE arms  *)
(* of build, on operands that are loaded or left at 0.                     *)

arith_op(c, op) ==
    LET dst == op[2]
        src == op[3]
    IN CASE op[1] = "NegV" -> push(c, SubFIN(Var_fp(dst), 1, Var_fp(src)))
         [] op[1] = "NegF" -> push(c, SubFIN(Felt_fp(dst), 1, Felt_fp(src)))
         [] op[1] = "NegE" -> push(c, SubEIN(Ext_fp(dst), EZero, Ext_fp(src)))
         [] op[1] = "InvV" -> push(c, DivFIN(Var_fp(dst), 1, Var_fp(src)))
         [] op[1] = "InvF" -> push(c, DivFIN(Felt_fp(dst), 1, Felt_fp(src)))
         [] op[1] = "InvE" -> push(c, DivEIN(Ext_fp(dst), EOne, Ext_fp(src)))

ArithOp(op) ==
    /\ CanOp
    /\ compiler' = arith_op(compiler, op)
    /\ ir' = Append(ir, op)
    /\ status' = Outcome(compiler')
    /\ UNCHANGED <<stack, loops, ifs, breaks, allocs>>
    /\ UNCHANGED rest

NegTags == {"NegV", "NegF", "NegE"}
InvTags == {"InvV", "InvF", "InvE"}

\* Into another operand, and in place.
ArithOps == {<<t, d, 0>> : t \in NegTags \cup InvTags, d \in {0, 1}}

NextArith ==
    \/ build
    \/ build_return
    \/ NewBreakLabel
    \/ \E v \in {5, P - 1} : ImmV(0, v)
    \/ DslImmF(0, 5)
    \/ DslImmE(0, E1)
    \/ \E op \in ArithOps : ArithOp(op)
    \/ Run

SpecArith == Start(MaxArithOps) /\ [][NextArith]_vars

\* The cell of operand i of the operation tag, and the 0 and 1 of its field.
ArithCell(tag, i) ==
    CASE tag \in {"NegV", "InvV"} -> Var_fp(i)
      [] tag \in {"NegF", "InvF"} -> Felt_fp(i)
      [] tag \in {"NegE", "InvE"} -> Ext_fp(i)

IsExt(tag) == tag \in {"NegE", "InvE"}

\* In these runs every operation is straight-line: operation n of the IR is
\* compiled to instruction n + 1 of block 0, after the load of the heap pointer.
OneInstructionEach == status # "new" => Len(Blocks[1]) = Len(ir) + 1

\* The step that executes the instruction of a negation leaves 0 - src in dst;
\* the step that executes the instruction of an inversion of a src that is not
\* 0 leaves in dst the value whose product with src is 1.
NegInvStep ==
    (vm.state = "running" /\ vm.idx > 1 /\ vm.idx <= Len(Blocks[1])) =>
        LET op == ir[vm.idx - 1]
            src == vm.mem[ArithCell(op[1], op[3])]
            dst == vm'.mem[ArithCell(op[1], op[2])]
        IN /\ op[1] \in NegTags =>
                dst = IF IsExt(op[1]) THEN ESub(EZero, src) ELSE FSub(0, src)
           /\ (op[1] \in InvTags /\ src # (IF IsExt(op[1]) THEN EZero ELSE 0)) =>
                IF IsExt(op[1]) THEN EMul(dst, src) = EOne ELSE FMul(dst, src) = 1

\* C22: NegV, NegF and NegE each compile to one instruction that computes
\* dst = 0 - src for every value of src, and InvV, InvF and InvE to one
\* instruction that computes dst = 1 / src.
C22_NegAndInvCompute == []OneInstructionEach /\ [][NegInvStep]_vars

---------------------------------------------------------------------------
(* IfCompiler::branch on its own: an lhs address, an rhs of each of the    *)
(* four forms of ValueOrConst, both senses and a block label are drawn,    *)
(* and branch is applied to them.                                          *)

Operands ==
    {Const(0), Const(3), ExtConst(E1), Val(Var_fp(1)), Val(Felt_fp(1)),
     ExtVal(Ext_fp(1))}

InitBranch ==
    /\ Machine(0)
    /\ \E lhs \in {Var_fp(0), Felt_fp(0), Ext_fp(0)}, rhs \in Operands,
          is_eq \in BOOLEAN, block \in 0 .. MaxBlock :
          probe = [lhs |-> lhs, rhs |-> rhs, is_eq |-> is_eq, block |-> block,
                   out |-> <<>>]

branch_call ==
    /\ probe.out = <<>>
    /\ probe' = [probe EXCEPT !.out =
                    <<branch(probe.lhs, probe.rhs, probe.is_eq, probe.block)>>]
    /\ UNCHANGED <<compiler, stack, status, ir, loops, ifs, breaks, allocs, limit,
                   vm, tally, challenger>>

SpecBranch == InitBranch /\ [][branch_call]_vars

\* The opcode for (rhs form, sense): branch-if-not-equal for is_eq, branch-if-
\* equal otherwise, with E for an operand of EF and I for an immediate.
Opcode(form, is_eq) ==
    (IF is_eq THEN "Bne" ELSE "Beq")
        \o (IF form \in {"ExtConst", "ExtVal"} THEN "E" ELSE "")
        \o (IF form \in {"Const", "ExtConst"} THEN "I" ELSE "")

\* C23: branch selects the opcode from (rhs form, sense) alone: a
\* branch-if-not-equal for is_eq and a branch-if-equal otherwise, in the
\* base-immediate, ext-immediate, base-register or ext-register variant of the
\* rhs form, with the given block as target and lhs, rhs passed unchanged.
C23_BranchTable ==
    probe.out # <<>> =>
        probe.out[1] = <<Opcode(probe.rhs[1], probe.is_eq), probe.block,
                         probe.lhs, probe.rhs[2]>>

C23_Witness ==
    /\ probe.out # <<>>
    /\ probe.rhs = ExtConst(E1) /\ ~probe.is_eq /\ probe.block = 2
    /\ probe.out[1] = <<"BeqEI", 2, Ext_fp(0), E1>>

---------------------------------------------------------------------------
(* The instructions of an Alloc and the cells they write. *)

\* What the claim has an Alloc emit: two instructions for a constant length,
\* three for a length held in a Var.
AllocCodeOf(a) ==
    IF a.len[1] = "Const"
    THEN << <<"AddFI", Ptr_fp(a.ptr), HEAP_PTR, 0>>,
            <<"AddFI", HEAP_PTR, HEAP_PTR, FMul(a.len[2], a.size)>> >>
    ELSE << <<"AddFI", Ptr_fp(a.ptr), HEAP_PTR, 0>>,
            <<"MulFI", A0, Var_fp(a.len[2]), a.size>>,
            <<"AddF", HEAP_PTR, HEAP_PTR, A0>> >>

AllocCode(n) ==
    LET code_n == AllocCodeOf(allocs[n])
    IN SubSeq(Blocks[allocs[n].block + 1], allocs[n].idx,
              allocs[n].idx + Len(code_n) - 1) = code_n

\* The step that compiles an Alloc appends its instructions to the current
\* block and changes nothing else of the block list.
AllocEmits ==
    Len(allocs') > Len(allocs) =>
        Blocks' = [Blocks EXCEPT ![Len(Blocks)] =
                      @ \o AllocCodeOf(allocs'[Len(allocs')])]

\* The cells that the instructions of Alloc n may write.
AllocFrame(n) ==
    {Ptr_fp(allocs[n].ptr), HEAP_PTR}
        \cup (IF allocs[n].len[1] = "Var" THEN {A0} ELSE {})

\* A step that executes an instruction of Alloc n writes inside the frame of
\* the Alloc, and its first instruction binds ptr to the heap pointer, which
\* it leaves as it is.
AllocWrites ==
    \A n \in DOMAIN allocs :
        (/\ vm.state = "running"
         /\ vm.block = allocs[n].block
         /\ vm.idx >= allocs[n].idx
         /\ vm.idx < allocs[n].idx + Len(AllocCodeOf(allocs[n]))) =>
            /\ \A a \in DOMAIN vm.mem :
                  vm'.mem[a] # vm.mem[a] => a \in AllocFrame(n)
            /\ (vm.idx = allocs[n].idx /\ vm'.steps # vm.steps) =>
                  /\ vm'.mem[Ptr_fp(allocs[n].ptr)] = vm.mem[HEAP_PTR]
                  /\ vm'.mem[HEAP_PTR] = vm.mem[HEAP_PTR]

\* C24: an Alloc of constant length emits exactly two instructions (the copy of
\* HEAP_PTR to ptr's address, the add of the immediate length * size to
\* HEAP_PTR), an Alloc of variable length exactly three (the copy, the product
\* of the length by the size into A0, the add of A0 to HEAP_PTR); ptr is bound
\* before the heap pointer is advanced, and no other address than ptr's,
\* HEAP_PTR and (variable form) A0 is written.
C24_AllocFrame ==
    /\ [](\A n \in DOMAIN allocs : AllocCode(n))
    /\ [][AllocEmits /\ AllocWrites]_vars

C24_Witness ==
    /\ vm.state = "halted"
    /\ Len(tally.trail) = 2
    /\ allocs[tally.trail[1].alloc].len = UVar(0)
    /\ allocs[tally.trail[2].alloc].len = UConst(2)
    /\ vm.mem[Var_fp(0)] = 5
    /\ vm.mem[A0] = 5
    /\ vm.mem[Ptr_fp(3)] = STACK_SIZE + 4
    /\ vm.mem[Ptr_fp(1)] = STACK_SIZE + 4 + 5

---------------------------------------------------------------------------
(* The block list through straight-line operations, If with and without    *)
(* else, Assert and For, nested in one another.                            *)

NextBlocks ==
    \/ build
    \/ build_return
    \/ NewBreakLabel
    \/ ImmV(0, 5)
    \/ Alloc(1, UVar(0), 4)
    \/ Break
    \/ Error
    \/ \E has_else \in BOOLEAN : IfEq(0, 1, has_else)
    \/ then_return
    \/ then_f_return
    \/ else_f_return
    \/ \E op \in {<<"AssertEqV", 0, 1>>, <<"AssertNeEI", 0, E1>>} : AssertOp(op)
    \/ AllocCall(3, UConst(2), 1)
    \/ \E is_eq \in BOOLEAN : AssertCall(Var_fp(0), Val(Var_fp(1)), is_eq)
    \/ \E r \in {<<UConst(0), UConst(2), 1>>, <<UVar(0), UVar(1), 2>>} :
          For(r[1], r[2], r[3], 2)
    \/ for_f_return

SpecBlocks == Start(MaxBlockOps) /\ [][NextBlocks]_vars

StraightTags == {"ImmV", "Alloc", "Break", "Error"}
AssertTags == AssertEqTags \cup AssertNeTags

\* The token that the step appends to the IR, if any.
Drawn(tags) == Len(ir') = Len(ir) + 1 /\ ir'[Len(ir')][1] \in tags

\* The step is a call of alloc, or of assert, on the compiler itself.
AllocCalled == Len(allocs') > Len(allocs) /\ allocs'[Len(allocs')].op = 0
AssertCalled == Len(ifs') > Len(ifs) /\ ifs'[Len(ifs')].first_op = 0

\* A straight-line operation, and a call of alloc, creates no block and appends
\* to the last block only.
StraightAppends ==
    (Drawn(StraightTags) \/ AllocCalled) =>
        /\ Len(Blocks') = Len(Blocks)
        /\ \A b \in 1 .. Len(Blocks) - 1 : Blocks'[b] = Blocks[b]
        /\ IsPrefix(Blocks[Len(Blocks)], Blocks'[Len(Blocks)])

\* An If, an Assert and a For return with a freshly created, empty block as
\* the last block (and so does the then body of a two-branch If).
ConstructReturns ==
    (Drawn({"End"} \cup AssertTags) \/ AssertCalled) =>
        /\ Len(Blocks') > Len(Blocks)
        /\ Blocks'[Len(Blocks')] = <<>>
        /\ block_label(compiler') = Len(Blocks') - 1

\* C25: throughout compilation the current block is the last block of the
\* list: a straight-line operation appends its instructions to the last block
\* only and creates no block, and every If, Assert and For returns with a
\* freshly created, empty block as the last (current) block.
C25_CurrentIsLast == [][StraightAppends /\ ConstructReturns]_vars

C25_Witness ==
    /\ status = "done"
    /\ Len(Blocks) = 6
    /\ ir[Len(ir)][1] = "ImmV"
    /\ Blocks[6] = <<ImmF(Var_fp(0), 5)>>
    /\ \E i \in DOMAIN ir : ir[i][1] \in AssertTags
    /\ loops # <<>>

\* C26: for every IR compiled from a new compiler the abort "Missing block at
\* label" of push_to_block is unreachable: every label that the If- and
\* For-compilers patch (branching block, terminal block of the then body,
\* loop-call block) is the label of an existing block at patch time.
C26_NoMissingBlock ==
    /\ compiler.panic # "Missing block at label"
    /\ \A n \in DOMAIN stack :
          LET fr == stack[n]
          IN /\ fr.kind \in {"then", "then_or_else.then", "then_or_else.else"}
                  => fr.if_branching_block + 1 \in DOMAIN Blocks
             /\ fr.kind = "then_or_else.else"
                  => fr.last_if_block + 1 \in DOMAIN Blocks
             /\ fr.kind = "for_each" => fr.loop_call_label + 1 \in DOMAIN Blocks

C26_Witness ==
    /\ status = "done"
    /\ \E k \in DOMAIN ifs : TwoBranch(k) /\ Last(ifs[k].else_start - 1) = j(ifs[k].after)
    /\ \E k \in DOMAIN loops :
          /\ Returned(k) /\ loops[k].call > 0
          /\ Last(loops[k].call) = j(loops[k].cond)

---------------------------------------------------------------------------
(* Loops of constant bounds start <= end and of steps 1, 2 and 3, with a   *)
(* step that divides end - start and with one that does not, in sequence   *)
(* and nested on another loop variable: (start, end, step, loop variable). *)

SteppedRanges ==
    {<<0, 2, 1, 2>>, <<0, 4, 2, 3>>, <<0, 3, 2, 3>>, <<1, 1, 2, 2>>, <<0, 3, 3, 2>>}

NextStep ==
    \/ build
    \/ build_return
    \/ NewBreakLabel
    \/ ImmV(0, 5)
    \/ \E r \in SteppedRanges : For(UConst(r[1]), UConst(r[2]), r[3], r[4])
    \/ for_f_return
    \/ Run

SpecStep == Start(MaxStepOps) /\ [][NextStep]_vars

\* Loop k is compiled, has constant bounds start <= end, and its body neither
\* writes the loop variable nor breaks.
SteppedLoop(k) ==
    /\ loops[k].after # -1
    /\ loops[k].start[1] = "Const" /\ loops[k].end[1] = "Const"
    /\ loops[k].start[2] <= loops[k].end[2]
    /\ \A i \in (loops[k].first_op + 1) .. (loops[k].last_op - 1) :
          ~Writes(ir[i], loops[k].loop_var)
    /\ \A n \in DOMAIN breaks : breaks[n].owner # k

Span(k) == loops[k].end[2] - loops[k].start[2]
Ceil(a, b) == (a + b - 1) \div b

\* When an execution of the body of loop k begins, the loop variable is in
\* the range.
InRange(k) ==
    (vm.state = "running" /\ vm.block = loops[k].body /\ vm.idx = 1) =>
        /\ loops[k].start[2] <= vm.mem[Var_fp(loops[k].loop_var)]
        /\ vm.mem[Var_fp(loops[k].loop_var)] < loops[k].end[2]

\* C27 as stated: a For with constant bounds start <= end and constant step
\* s >= 1, whose body neither writes the loop variable nor breaks, executes
\* its body exactly ceil((end - start) / s) times, with
\* start <= loop_var < end in every execution of the body.
C27_BodyRunsCeil ==
    vm.state # "idle" =>
        \A k \in DOMAIN loops :
            SteppedLoop(k) =>
                /\ BodyRuns(k, Ceil(Span(k), loops[k].step_size))
                /\ InRange(k)

\* C27, amended: when moreover s divides end - start, the body is executed
\* exactly (end - start) / s times, with start <= loop_var < end in every
\* execution.  The loop is left when loop_var = end only: when s does not
\* divide end - start the loop variable steps over end and the body goes on
\* being executed.
C27_BodyRunsWhenStepDivides ==
    vm.state # "idle" =>
        \A k \in DOMAIN loops :
            (SteppedLoop(k) /\ Span(k) % loops[k].step_size = 0) =>
                /\ BodyRuns(k, Span(k) \div loops[k].step_size)
                /\ InRange(k)

C27_Witness ==
    /\ vm.state = "halted"
    /\ \E k \in DOMAIN loops :
          /\ SteppedLoop(k)
          /\ loops[k].step_size = 2 /\ Span(k) = 4
          /\ tally.entered[k] = 2
          /\ Visits(loops[k].body) = 4

---------------------------------------------------------------------------
(* Two nested loops. *)

\* Programs of nested constant-range loops: the ranges 0..2 and 0..3 on two
\* loop variables, an empty range, and Break, compiled and then run.
MaxNestOps == 3

NestedRanges == {<<0, 2, 2>>, <<0, 2, 3>>, <<0, 3, 3>>, <<1, 1, 2>>}

NextNest ==
    \/ build
    \/ build_return
    \/ NewBreakLabel
    \/ Break
    \/ \E r \in NestedRanges : For(UConst(r[1]), UConst(r[2]), 1, r[3])
    \/ for_f_return
    \/ Run

SpecNest == Start(MaxNestOps) /\ [][NextNest]_vars

\* Loop i is nested directly in loop o; both have step 1 and constant bounds
\* start <= end, and no operation of their bodies writes their loop variable.
NestedPair(o, i) ==
    /\ loops[i].parent = o
    /\ \A k \in {o, i} :
          /\ loops[k].after # -1
          /\ loops[k].step_size = 1
          /\ loops[k].start[1] = "Const" /\ loops[k].end[1] = "Const"
          /\ loops[k].start[2] <= loops[k].end[2]
          /\ \A x \in (loops[k].first_op + 1) .. (loops[k].last_op - 1) :
                ~Writes(ir[x], loops[k].loop_var)

NoBreakIn(k) == \A n \in DOMAIN breaks : breaks[n].owner # k

\* Without Break: the inner loop is entered once in every outer iteration,
\* and its body runs n * m times for every time the outer loop is entered.
InnerRuns(o, i) ==
    LET n == loops[o].end[2] - loops[o].start[2]
        m == loops[i].end[2] - loops[i].start[2]
    IN /\ tally.entered[i] <= tally.entered[o] * n
       /\ Visits(loops[i].body) <= tally.entered[o] * n * m
       /\ vm.state = "halted" =>
             /\ tally.entered[i] = tally.entered[o] * n
             /\ Visits(loops[i].body) = tally.entered[o] * n * m

\* The step that enters loop k sets its loop variable to start.
Reinitialised ==
    \A k \in DOMAIN loops :
        (vm.state = "running" /\ k \in LoopsHere /\ vm'.steps # vm.steps
           /\ loops[k].start[1] = "Const") =>
            vm'.mem[Var_fp(loops[k].loop_var)] = loops[k].start[2]

\* The step that executes a Break of the inner body leaves the inner loop
\* only: control is at the after-loop block of the inner loop, which is a
\* block of the outer body, and the loop variable of the outer loop is as it
\* was.
BreakLeavesInner ==
    \A n \in DOMAIN breaks, i \in DOMAIN loops, o \in DOMAIN loops :
        (/\ vm.state = "running" /\ vm'.steps # vm.steps
         /\ vm.block = breaks[n].block /\ vm.idx = breaks[n].idx
         /\ breaks[n].owner = i /\ loops[i].parent = o
         /\ NestedPair(o, i) /\ Innermost(i)) =>
            /\ vm'.state = "running"
            /\ vm'.block = loops[i].after /\ vm'.idx = 1
            /\ loops[o].body <= loops[i].after /\ loops[i].after < loops[o].cond
            /\ vm'.mem[Var_fp(loops[o].loop_var)] = vm.mem[Var_fp(loops[o].loop_var)]

\* C28: for two nested unit-step loops with constant ranges of n (outer) and
\* m (inner) iterations whose bodies do not write the loop variables, the
\* inner loop variable is re-initialised on every outer iteration and the
\* inner body executes exactly n * m times; when a Break executes in the inner
\* body only the current run of the inner loop ends, and the outer iteration
\* continues after the inner loop, up to the outer increment.
C28_NestedLoops ==
    /\ [](vm.state # "idle" =>
            \A i \in DOMAIN loops, o \in DOMAIN loops :
                (loops[i].parent = o /\ NestedPair(o, i)) =>
                    /\ (NoBreakIn(o) /\ NoBreakIn(i)) => InnerRuns(o, i)
                    /\ Last(loops[o].cond - 1) = BodyEnd(o))
    /\ [][Reinitialised /\ BreakLeavesInner]_vars

C28_Witness ==
    /\ vm.state = "halted"
    /\ \E o \in DOMAIN loops, i \in DOMAIN loops, n \in DOMAIN breaks :
          /\ NestedPair(o, i) /\ breaks[n].owner = i
          /\ loops[o].end[2] - loops[o].start[2] = 2
          /\ loops[i].end[2] - loops[i].start[2] = 2
          /\ tally.entered[i] = 2
          /\ Visits(loops[i].body) = 2
          /\ Visits(loops[i].after) = 2
          /\ Visits(loops[o].after) = 1

---------------------------------------------------------------------------
(* The frame of a structured construct: which blocks change while an If,   *)
(* an Assert or a For is compiled.                                         *)

IfTags == {"IfEq", "IfNe", "IfEqI", "IfNeI"}

\* The label of the block that was current when the construct of a frame
\* started.
StartBlock(fr) ==
    IF fr.kind = "for_each" THEN fr.loop_call_label ELSE fr.if_branching_block

Changed(b) == Blocks'[b] # Blocks[b]

\* The step appends exactly one instruction, of one of the tags, to block b.
AppendsOne(b, tags) ==
    /\ IsPrefix(Blocks[b], Blocks'[b])
    /\ Len(Blocks'[b]) = Len(Blocks[b]) + 1
    /\ Blocks'[b][Len(Blocks'[b])][1] \in tags

\* The step returns from the body of a construct into its sub-compiler, which
\* finishes.
Leaves == Drawn({"End"}) /\ Len(stack') < Len(stack)

\* No block below the start block of a construct changes, from the start of
\* the construct to its end.
LowerBlocksKept ==
    /\ \A n \in DOMAIN stack, b \in DOMAIN Blocks :
          b < StartBlock(stack[n]) + 1 => ~Changed(b)
    /\ (Drawn(IfTags \cup AssertTags \cup {"For"}) \/ AssertCalled) =>
          \A b \in DOMAIN Blocks : b < Len(Blocks) => ~Changed(b)

\* The start block of an open construct changes only when the construct
\* itself finishes, by one appended branch (If) or jump (For).
StartBlockGetsTransfer ==
    \A n \in DOMAIN stack :
        Changed(StartBlock(stack[n]) + 1) =>
            /\ n = Len(stack)
            /\ Leaves
            /\ AppendsOne(StartBlock(stack[n]) + 1,
                          IF stack[n].kind = "for_each" THEN {"j"}
                          ELSE ConditionalTags)

\* An Assert, compiled in one step, appends one branch to its start block.
AssertAppendsBranch ==
    (Drawn(AssertTags) \/ AssertCalled) => AppendsOne(Len(Blocks), ConditionalTags)

\* The start of an If changes no block; the start of a For appends the
\* initialisation of the loop variable to the start block.
StartAppendsInitialisation ==
    /\ Drawn(IfTags) => ~Changed(Len(Blocks))
    /\ Drawn({"For"}) => AppendsOne(Len(Blocks), {"ImmF", "AddFI"})

\* The start of an If or of a For changes no block.
StartChangesNothing == Drawn(IfTags \cup {"For"}) => ~Changed(Len(Blocks))

\* Instructions are replaced only by the break rewrite of a finishing loop,
\* in blocks created inside the body of that loop, and only its Break markers
\* are, by the jump to its after-block.
RewriteInsideBody ==
    \A b \in DOMAIN Blocks :
        ~IsPrefix(Blocks[b], Blocks'[b]) =>
            /\ Leaves
            /\ Top.kind = "for_each"
            /\ b - 1 >= Top.loop_label
            /\ Len(Blocks'[b]) >= Len(Blocks[b])
            /\ \A i \in DOMAIN Blocks[b] :
                  Blocks'[b][i] # Blocks[b][i] =>
                      /\ Blocks[b][i] = BreakI(Top.break_label)
                      /\ Blocks'[b][i] = j(block_label(compiler'))

\* C29 (as stated): compiling an If, an Assert or a For that starts when block
\* B is current changes no block of index lower than B, and changes, among the
\* blocks that existed before it started, only B, by appending one branch or
\* jump; the break rewrite of a loop touches only blocks created inside the
\* body of that loop.
C29_OneTransferAppended ==
    [][/\ LowerBlocksKept
       /\ StartBlockGetsTransfer
       /\ AssertAppendsBranch
       /\ StartChangesNothing
       /\ RewriteInsideBody]_vars

\* C29 (amended): as above, except that a For changes B by appending two
\* instructions: the initialisation of the loop variable when it starts, and
\* the jump to its condition block when it finishes.
C29_ConstructFrame ==
    [][/\ LowerBlocksKept
       /\ StartBlockGetsTransfer
       /\ AssertAppendsBranch
       /\ StartAppendsInitialisation
       /\ RewriteInsideBody]_vars

C29_Witness ==
    /\ status = "done"
    /\ \E k \in DOMAIN loops, n \in DOMAIN breaks :
          /\ Returned(k) /\ loops[k].call > 0
          /\ Last(loops[k].call) = j(loops[k].cond)
          /\ Blocks[loops[k].call + 1][loops[k].pos][1] = "ImmF"
          /\ loops[k].pos = Len(Blocks[loops[k].call + 1]) - 1
          /\ breaks[n].owner = k
          /\ Blocks[breaks[n].block + 1][breaks[n].idx] = j(loops[k].after)
    /\ \E k \in DOMAIN ifs : ifs[k].after # -1 /\ ifs[k].branching = 0

---------------------------------------------------------------------------
(* The number of blocks of a compiled program, from the constructs of the  *)
(* IR at every depth.                                                      *)

Tokens(tags) == {i \in DOMAIN ir : ir[i][1] \in tags}

SingleBranchIfs == Cardinality({i \in Tokens(IfTags) : ~ir[i][4]})
TwoBranchIfs == Cardinality({i \in Tokens(IfTags) : ir[i][4]})
\* The assertions compiled: the Assert operations of the IR and the calls of
\* assert on the compiler.
Asserts == Cardinality(Tokens(AssertTags)) + AssertCalls
Fors == Cardinality(Tokens({"For"}))

\* C30: for every IR that compiles without abort from a new compiler, the
\* final number of blocks is 1 + 2 * (single-branch Ifs + Asserts)
\* + 3 * (two-branch Ifs + Fors), the constructs counted at every depth; an
\* assertion compiled by a call of assert on the compiler counts as an Assert.
C30_BlockCount ==
    status = "done" =>
        Len(Blocks) = 1 + 2 * (SingleBranchIfs + Asserts)
                        + 3 * (TwoBranchIfs + Fors)

C30_Witness ==
    /\ status = "done"
    /\ Fors = 1 /\ SingleBranchIfs = 1 /\ Asserts = 1
    /\ \E k \in DOMAIN ifs : ifs[k].branching > 0
    /\ Len(Blocks) = 8

---------------------------------------------------------------------------
(* Assertions against single-branch Ifs whose body is Error: the four Var  *)
(* forms of each, compiled at top level, in a loop and in one another.     *)

MaxSameOps == 3

SameAsserts ==
    {<<"AssertEqV", 0, 1>>, <<"AssertNeV", 0, 1>>,
     <<"AssertEqVI", 0, 5>>, <<"AssertNeVI", 0, 5>>}

NextSame ==
    \/ build
    \/ build_return
    \/ NewBreakLabel
    \/ ImmV(0, 5)
    \/ Error
    \/ IfEq(0, 1, FALSE)
    \/ IfNe(0, 1, FALSE)
    \/ IfEqI(0, 5, FALSE)
    \/ IfNeI(0, 5, FALSE)
    \/ then_return
    \/ \E op \in SameAsserts : AssertOp(op)
    \/ \E is_eq \in BOOLEAN : AssertCall(Var_fp(0), Val(Var_fp(1)), is_eq)
    \/ For(UConst(0), UConst(2), 1, 2)
    \/ for_f_return

\* The compiler is the one of new or the one of the derived Default, which has
\* no block, built with and without overflow checks.
SpecSame ==
    /\ compiler \in {with_overflow_checks(c, on) :
                        c \in {new, default}, on \in BOOLEAN}
    /\ Rig(MaxSameOps)
    /\ challenger = challenger_new(8)
    /\ probe = NoProbe
    /\ [][NextSame]_vars

\* The If that corresponds to an assertion: (tag, lhs, rhs operand, is_eq).
IfOfAssert(op) ==
    CASE op[1] = "AssertEqV" -> <<"IfNe", Var_fp(op[2]), Val(Var_fp(op[3])), FALSE>>
      [] op[1] = "AssertNeV" -> <<"IfEq", Var_fp(op[2]), Val(Var_fp(op[3])), TRUE>>
      [] op[1] = "AssertEqVI" -> <<"IfNeI", Var_fp(op[2]), Const(op[3]), FALSE>>
      [] op[1] = "AssertNeVI" -> <<"IfEqI", Var_fp(op[2]), Const(op[3]), TRUE>>

\* What the If arm, the Error arm and the return of `then` do in sequence from
\* the compiler c, for the If (tag, lhs, rhs, is_eq).
IfThenError(c, cond) ==
    then_exit(push(then_enter(c), Trap),
              [ if_branching_block |-> block_label(c),
                lhs |-> cond[2], rhs |-> cond[3], is_eq |-> cond[4] ])

\* An assertion is compiled: the blocks are those of the If with an Error body
\* compiled from the same compiler.
AssertAsIf ==
    Drawn({op[1] : op \in SameAsserts}) =>
        compiler'.basic_blocks =
            IfThenError(compiler, IfOfAssert(ir'[Len(ir')])).basic_blocks

\* A call of assert on the compiler returns: the blocks are those of the If of
\* the same operands and sense with an Error body.
CallAsIf ==
    AssertCalled =>
        LET a == ifs'[Len(ifs')]
        IN compiler'.basic_blocks =
               IfThenError(compiler, <<"If", a.lhs, a.rhs, a.is_eq>>).basic_blocks

\* The step returns from an If whose body is the single operation Error.
ErrorIfReturns ==
    /\ Drawn({"End"}) /\ Top.kind = "then"
    /\ ir[Len(ir)][1] = "Error"
    /\ ifs[Top.id].first_op = Len(ir) - 1

\* The compiler that the If whose body is the last block started from: the
\* compiler now, without the then block.
Started == [compiler EXCEPT !.basic_blocks = SubSeq(@, 1, Len(@) - 1)]

\* An If whose body is the single operation Error returns: the blocks are
\* those of the assertion compiled from the compiler the If started from.
IfAsAssert ==
    ErrorIfReturns =>
        \E op \in SameAsserts :
            /\ IfOfAssert(op) = <<ir[Len(ir) - 1][1], Top.lhs, Top.rhs, Top.is_eq>>
            /\ compiler'.basic_blocks = assert_op(Started, op).basic_blocks

AssertAsIfFromBlocks ==
    Drawn({op[1] : op \in SameAsserts}) =>
        LET r == IfThenError(compiler, IfOfAssert(ir'[Len(ir')]))
        IN /\ compiler'.panic = r.panic
           /\ Blocks # <<>> =>
                 /\ compiler'.panic = ""
                 /\ compiler'.basic_blocks = r.basic_blocks

IfAsAssertFromBlocks ==
    ErrorIfReturns =>
        \E op \in SameAsserts :
            /\ IfOfAssert(op) = <<ir[Len(ir) - 1][1], Top.lhs, Top.rhs, Top.is_eq>>
            /\ compiler'.panic = assert_op(Started, op).panic
            /\ Started.basic_blocks # <<>> =>
                  /\ compiler'.panic = ""
                  /\ compiler'.basic_blocks = assert_op(Started, op).basic_blocks

---------------------------------------------------------------------------
(* Straight-line operations on values of every kind and of the lowest      *)
(* indices, those next to the reserved cells, compiled one after another.  *)

MaxCellOps == 3
MaxCell == 2

NextCells ==
    \/ build
    \/ build_return
    \/ NewBreakLabel
    \/ \E i \in 0 .. MaxCell : ImmV(i, 5)
    \/ \E i \in 0 .. MaxCell : DslImmF(i, 5)
    \/ \E i \in 0 .. MaxCell : DslImmE(i, E1)
    \/ \E i \in 0 .. MaxCell : AddVI(i, 0, 1)
    \/ \E t \in NegTags \cup InvTags : ArithOp(<<t, MaxCell, 0>>)
    \/ \E len \in {UConst(2), UVar(0)} : Alloc(1, len, 4)
    \/ \E len \in {UConst(2), UVar(0)} : AllocCall(0, len, 4)

SpecCells == Start(MaxCellOps) /\ [][NextCells]_vars

ReservedCells == {ZERO, HEAP_PTR, A0}

\* The value operands (kind, index) of a straight-line operation of the IR.
ValueOperands(op) ==
    CASE op[1] = "ImmV" -> {<<"Var", op[2]>>}
      [] op[1] = "ImmF" -> {<<"Felt", op[2]>>}
      [] op[1] = "ImmE" -> {<<"Ext", op[2]>>}
      [] op[1] = "AddVI" -> {<<"Var", op[2]>>, <<"Var", op[3]>>}
      [] op[1] \in {"NegV", "InvV"} -> {<<"Var", op[2]>>, <<"Var", op[3]>>}
      [] op[1] \in {"NegF", "InvF"} -> {<<"Felt", op[2]>>, <<"Felt", op[3]>>}
      [] op[1] \in {"NegE", "InvE"} -> {<<"Ext", op[2]>>, <<"Ext", op[3]>>}
      [] op[1] = "Alloc" ->
            {<<"Var", op[2]>>}
                \cup (IF op[3][1] = "Var" THEN {<<"Var", op[3][2]>>} ELSE {})

\* The cells that an instruction reads or writes.
CellsOf(instruction) ==
    CASE instruction[1] \in {"ImmF", "ImmE"} -> {instruction[2]}
      [] instruction[1] \in {"AddFI", "MulFI"} -> {instruction[2], instruction[3]}
      [] instruction[1] = "AddF" ->
            {instruction[2], instruction[3], instruction[4]}
      [] instruction[1] \in {"SubFIN", "DivFIN", "SubEIN", "DivEIN"} ->
            {instruction[2], instruction[4]}

\* The instructions that the step appends to the current block.
Emitted ==
    SubSeq(Blocks'[Len(Blocks)], Len(Blocks[Len(Blocks)]) + 1,
           Len(Blocks'[Len(Blocks)]))

EmittedCells == UNION {CellsOf(Emitted[i]) : i \in DOMAIN Emitted}

CellTags ==
    {"ImmV", "ImmF", "ImmE", "AddVI", "Alloc"} \cup NegTags \cup InvTags

\* A straight-line operation is compiled, as an operation of the IR or as a
\* call of alloc on the compiler: the addresses of its value operands are at
\* most -STACK_START_OFFSET, and they are the cells of the emitted
\* instructions, but for the heap pointer and the scratch slot of an Alloc.
ValueCellsApart ==
    (Drawn(CellTags) \/ AllocCalled) =>
        LET a == allocs'[Len(allocs')]
            op == IF AllocCalled THEN <<"Alloc", a.ptr, a.len, a.size>>
                  ELSE ir'[Len(ir')] IN
        /\ \A v \in ValueOperands(op) :
              /\ fp(v) < 0
              /\ fp(v) <= -STACK_START_OFFSET
              /\ fp(v) \notin ReservedCells
        /\ EmittedCells \ ReservedCells = {fp(v) : v \in ValueOperands(op)}
        /\ EmittedCells \cap ReservedCells =
              (IF op[1] # "Alloc" THEN {}
               ELSE IF op[3][1] = "Var" THEN {HEAP_PTR, A0} ELSE {HEAP_PTR})

\* C32: every value address is a strictly negative frame offset of at most
\* -STACK_START_OFFSET, so it differs from the reserved cells ZERO, HEAP_PTR
\* and A0; no straight-line instruction reads or writes a reserved cell
\* through a value operand.
C32_ValueCellsApart == [][ValueCellsApart]_vars

C32_Witness ==
    /\ status = "done"
    /\ \E b \in DOMAIN Blocks :
          /\ \E i \in DOMAIN Blocks[b] : Blocks[b][i] = ImmE(-STACK_START_OFFSET, E1)
          /\ \E i \in DOMAIN Blocks[b] : Blocks[b][i] = MulFI(A0, Var_fp(0), 4)
          /\ \E i \in DOMAIN Blocks[b] : Blocks[b][i][1] \in {"SubEIN", "DivEIN"}

---------------------------------------------------------------------------
(* A compiler from either constructor, in either profile, then build of    *)
(* straight-line operations and of Break, Alloc, an assertion, If and For. *)

MaxFreshOps == 3

InitFresh ==
    /\ compiler \in {with_overflow_checks(c, on) :
                        c \in {new, default}, on \in BOOLEAN}
    /\ Rig(MaxFreshOps)
    /\ challenger = challenger_new(8)
    /\ probe = NoProbe

NextFresh ==
    \/ build
    \/ build_return
    \/ NewBreakLabel
    \/ \E i \in 0 .. 1 : ImmV(i, 5)
    \/ DslImmF(0, 5)
    \/ DslImmE(0, E1)
    \/ AddVI(0, 0, 1)
    \/ \E op \in ArithOps : ArithOp(op)
    \/ Break
    \/ Alloc(1, UConst(2), 4)
    \/ AssertOp(<<"AssertEqV", 0, 1>>)
    \/ IfEq(0, 1, FALSE)
    \/ then_return
    \/ For(UConst(0), UConst(2), 1, 2)
    \/ for_f_return

SpecFresh == InitFresh /\ [][NextFresh]_vars

\* The straight-line operations drawn.
FreshTags == {"ImmV", "ImmF", "ImmE", "AddVI"} \cup NegTags \cup InvTags

\* The state that the lifecycle gives to a compiler before its first build.
OneEmptyBlock ==
    /\ compiler.basic_blocks = << <<>> >>
    /\ compiler.break_label = None
    /\ compiler.break_counter = 0
    /\ compiler.break_label_map = {}
    /\ compiler.contains_break = {}
    /\ compiler.function_labels = <<>>

\* C33: a compiler from new() or from the derived Default starts with one
\* empty block, no break label, break counter 0 and empty tables, and build
\* of straight-line operations on it does not abort.
C33_FreshBuilds ==
    /\ (status = "new" /\ LabelCalls = 0) => OneEmptyBlock
    /\ (\A i \in DOMAIN ir : ir[i][1] \in FreshTags) => status # "aborted"

---------------------------------------------------------------------------
(* build on an IR given in advance: the list of operations, the bodies of  *)
(* If and For nested in it, each body closed by End.                       *)

MaxWalkOps == 3

WalkLeaves == {<<"ImmV", 0, 5>>, <<"Break">>}

\* Loops of every sort of range: ascending, end below start, a step that
\* steps over the end, and a step of zero over variable bounds.
WalkFors ==
    {<<"For", UConst(0), UConst(2), 1, 2>>, <<"For", UConst(2), UConst(0), 1, 2>>,
     <<"For", UConst(0), UConst(3), 2, 2>>, <<"For", UVar(0), UVar(1), 0, 2>>}

\* The operation lists of at most n operations, nested to depth d at most.
\* An If with an empty else body is a single-branch If.
RECURSIVE Bodies(_, _)
Bodies(n, d) ==
    IF n = 0 THEN {<<>>}
    ELSE {<<>>}
         \cup {<<l>> \o r : l \in WalkLeaves, r \in Bodies(n - 1, d)}
         \cup (IF d = 0 THEN {}
               ELSE UNION {
                   {<<h>> \o b \o <<<<"End">>>> \o r :
                        h \in WalkFors \cup {<<"IfEq", 0, 1, FALSE>>},
                        b \in Bodies(k, d - 1), r \in Bodies(n - 1 - k, d)}
                   \cup UNION {
                       {<<<<"IfEq", 0, 1, TRUE>>>> \o b \o <<<<"End">>>>
                            \o e \o <<<<"End">>>> \o r :
                            b \in Bodies(k, d - 1),
                            e \in Bodies(m, d - 1) \ {<<>>},
                            r \in Bodies(n - 1 - k - m, d)} :
                       m \in 1 .. n - 1 - k} :
                   k \in 0 .. n - 1})

InitWalk ==
    /\ compiler = new
    /\ Rig(MaxWalkOps)
    /\ challenger = challenger_new(8)
    /\ \E program \in Bodies(MaxWalkOps, MaxDepth) : probe = [program |-> program]

\* One step of build on the operation the list holds next.
NextWalk ==
    \/ build
    \/ NewBreakLabel
    \/ ir = probe.program /\ build_return
    \/ /\ Len(ir) < Len(probe.program)
       /\ LET op == probe.program[Len(ir) + 1] IN
          \/ op[1] = "ImmV" /\ ImmV(op[2], op[3])
          \/ op[1] = "Break" /\ Break
          \/ op[1] = "IfEq" /\ IfEq(op[2], op[3], op[4])
          \/ op[1] = "For" /\ For(op[2], op[3], op[4], op[5])
          \/ op[1] = "End" /\ then_return
          \/ op[1] = "End" /\ then_f_return
          \/ op[1] = "End" /\ else_f_return
          \/ op[1] = "End" /\ for_f_return

\* build is synchronous: it always takes its next step.
SpecWalk == InitWalk /\ [][NextWalk]_vars /\ WF_vars(NextWalk)

\* The build has returned, every operation visited, or it has aborted.
Ended ==
    \/ status = "aborted"
    \/ status = "done" /\ ir = probe.program /\ stack = <<>>

\* A step visits the operation that follows the last one visited, and no
\* other; a structured operation opens one frame, an End closes one.
VisitsNext ==
    \/ /\ ir' = ir
       /\ stack' = stack
    \/ /\ Len(ir) < Len(probe.program)
       /\ ir' = Append(ir, probe.program[Len(ir) + 1])
       /\ Len(stack') = Len(stack)
               + (CASE ir'[Len(ir')][1] \in {"IfEq", "For"} -> 1
                    [] ir'[Len(ir')] = <<"End">> /\ Top.kind # "then_or_else.then" -> -1
                    [] OTHER -> 0)

\* C34: compilation of every finite IR terminates: build visits each
\* operation of the list and of every nested body once, in order and
\* depth-first, and ends by returning or by aborting, whatever the bounds
\* and the step of a For.
C34_BuildTerminates == [][VisitsNext]_vars /\ <>Ended

C34_Witness ==
    /\ status = "done"
    /\ ir = probe.program
    /\ ir = << <<"For", UConst(2), UConst(0), 1, 2>>, <<"IfEq", 0, 1, FALSE>>,
               <<"ImmV", 0, 5>>, <<"End">>, <<"End">> >>

---------------------------------------------------------------------------
(* The challenger: any sequence of calls of its methods, for a scalar      *)
(* field of one or of eight base-field elements.                           *)

MaxCalls == 5

InitChallenger ==
    /\ compiler = new
    /\ Rig(0)
    /\ probe = NoProbe
    /\ \E num_f_elms \in NumFElms : challenger = challenger_new(num_f_elms)

CanCall == challenger.panic = "" /\ Len(challenger.calls) < MaxCalls

\* The call of a method returns; a panic ends the sequence.
Call(name, ch) ==
    /\ CanCall
    /\ challenger' = [ch EXCEPT !.calls = Append(@, name)]
    /\ UNCHANGED <<compiler, stack, status, ir, loops, ifs, breaks, allocs, limit,
                   vm, tally, probe>>

Observe == Call("observe", observe(challenger, challenger.observed + 1))
ObserveCommitment == Call("observe_commitment", observe_commitment(challenger))
Duplexing == Call("duplexing", duplexing(challenger))
Sample == Call("sample", sample(challenger))
SampleExt == Call("sample_ext", sample_ext(challenger))
SampleBits == \E bits \in {1, 16} : Call("sample_bits", sample_bits(challenger, bits))
CheckWitness ==
    \E bits \in {1, 16} :
        Call("check_witness",
             check_witness(challenger, bits, challenger.observed + 1))

NextChallenger ==
    \/ Observe
    \/ ObserveCommitment
    \/ Duplexing
    \/ Sample
    \/ SampleExt
    \/ SampleBits
    \/ CheckWitness

SpecChallenger == InitChallenger /\ [][NextChallenger]_vars

Capacity == challenger.num_f_elms * WIDTH

\* C35: over any sequence of calls the assertion of duplexing holds,
\* between calls the input buffer holds fewer than num_f_elms * WIDTH
\* elements, and duplexing writes sponge-state cells 0 .. WIDTH - 1 only.
C35_InputBelowCapacity ==
    /\ challenger.panic = ""
    /\ Len(challenger.input_buffer) < Capacity
    /\ \A d \in DOMAIN challenger.duplexings :
          /\ challenger.duplexings[d].inputs <= Capacity
          /\ challenger.duplexings[d].chunks <= WIDTH

\* A duplexing of a full buffer, run by observe, has written every cell.
C35_Witness ==
    /\ challenger.num_f_elms = 8
    /\ Len(challenger.calls) = MaxCalls
    /\ \E d \in DOMAIN challenger.duplexings :
          /\ challenger.duplexings[d].inputs = Capacity
          /\ challenger.duplexings[d].chunks = WIDTH
    /\ \E d \in DOMAIN challenger.duplexings :
          challenger.duplexings[d].inputs \in 1 .. Capacity - 1
    /\ \E i \in DOMAIN challenger.calls : challenger.calls[i] = "check_witness"

\* The number of elements that the calls made so far return.
RECURSIVE Sampled(_)
Sampled(calls) ==
    IF calls = <<>> THEN 0
    ELSE Sampled(SubSeq(calls, 1, Len(calls) - 1))
         + (CASE calls[Len(calls)] \in {"sample", "sample_bits", "check_witness"} -> 1
              [] calls[Len(calls)] = "sample_ext" -> 4
              [] OTHER -> 0)

\* C36: with num_f_elms >= 1, sample never finds the output buffer empty at
\* the pop: it returns one element per call, after a duplexing exactly when
\* inputs were pending or no output was left, and every duplexing refills
\* the output buffer with WIDTH * num_f_elms elements.
C36_SampleNeverEmpty ==
    challenger.num_f_elms >= 1 =>
        /\ challenger.panic # "output buffer should be non-empty"
        /\ challenger.panic = "" =>
                Len(challenger.returned) = Sampled(challenger.calls)
        /\ \A k \in DOMAIN challenger.returned :
              LET r == challenger.returned[k] IN
              /\ r.element[1] \in DOMAIN challenger.duplexings
              /\ r.element[1] =
                    (IF r.inputs > 0 \/ r.outputs = 0 THEN r.duplexed + 1
                     ELSE r.duplexed)
        /\ \A d \in DOMAIN challenger.duplexings :
              challenger.duplexings[d].squeezed = WIDTH * challenger.num_f_elms
        /\ Len(challenger.output_buffer) <= WIDTH * challenger.num_f_elms
        /\ \A i \in DOMAIN challenger.output_buffer :
              challenger.output_buffer[i] =
                  <<Len(challenger.duplexings), (i - 1) \div challenger.num_f_elms,
                    (i - 1) % challenger.num_f_elms>>

\* sample_ext with one element per cell: the fourth sample finds no output
\* left and no input pending, and duplexes again.
C36_Witness ==
    /\ challenger.num_f_elms = 1
    /\ challenger.panic = ""
    /\ challenger.calls = <<"observe", "sample_ext", "sample">>
    /\ Len(challenger.returned) = 5
    /\ challenger.returned[1].inputs = 1
    /\ challenger.returned[4].inputs = 0 /\ challenger.returned[4].outputs = 0
    /\ challenger.returned[4].element = <<2, 2, 0>>
    /\ challenger.returned[5].element = <<2, 1, 0>>
    /\ challenger.returned[5].duplexed = 2

\* The number of values that the duplexings up to the d-th have absorbed.
RECURSIVE AbsorbedBy(_)
AbsorbedBy(d) ==
    IF d = 0 THEN 0 ELSE AbsorbedBy(d - 1) + challenger.duplexings[d].inputs

\* C37: every observe invalidates the pending outputs: an element that
\* sample returns was squeezed by a duplexing that no observe has followed
\* and that had absorbed, with the duplexings before it, every value observed
\* so far; every observed value is absorbed once, the pending ones excepted.
C37_ObserveInvalidates ==
    /\ challenger.absorbed \o challenger.input_buffer
            = [i \in 1 .. challenger.observed |-> i]
    /\ challenger.output_buffer # <<>> => challenger.input_buffer = <<>>
    /\ \A k \in DOMAIN challenger.returned :
          LET r == challenger.returned[k] IN
          /\ challenger.duplexings[r.element[1]].observed = r.observed
          /\ AbsorbedBy(r.element[1]) = r.observed

\* One sample after a duplexing run by the observe that filled the buffer,
\* one after an observe that left its value pending.
C37_Witness ==
    /\ challenger.num_f_elms = 1
    /\ challenger.calls = <<"observe", "observe", "observe", "sample", "check_witness">>
    /\ challenger.panic = ""
    /\ challenger.returned[1].inputs = 0 /\ challenger.returned[1].outputs = 3
    /\ challenger.returned[1].element[1] = 1
    /\ challenger.returned[2].inputs = 1 /\ challenger.returned[2].outputs = 0
    /\ challenger.returned[2].element[1] = 2
    /\ challenger.absorbed = <<1, 2, 3, 4>>

---------------------------------------------------------------------------
(* The break labels of the loops.                                          *)

\* The loops whose for_each has returned.
Compiled == {k \in DOMAIN loops : loops[k].after # -1}

\* The counter is the number of loops started, the k-th loop has label
\* k - 1, and the map holds the after-loop block of every compiled loop.
LabelsInOrder ==
    /\ compiler.break_counter = Len(loops)
    /\ \A k \in DOMAIN loops : loops[k].label = k - 1
    /\ \A k \in DOMAIN loops, n \in DOMAIN loops :
          loops[k].label = loops[n].label => k = n
    /\ compiler.break_label_map
            = {<<loops[k].label, loops[k].after>> : k \in Compiled}

\* The counter advances by one at a For and at no other step, and an entry
\* of the map stays as it is.
LabelStep ==
    /\ compiler'.break_counter
            = compiler.break_counter + (IF Drawn({"For"}) THEN 1 ELSE 0)
    /\ Drawn({"For"}) =>
          /\ loops'[Len(loops')].label = compiler.break_counter
          /\ \A e \in compiler.break_label_map : e[1] < loops'[Len(loops')].label
    /\ compiler.break_label_map \subseteq compiler'.break_label_map

\* C38 as stated: every For allocates a break label distinct from all labels
\* allocated before: break_counter grows by one per For started and never
\* decreases, the k-th loop started has label k - 1, and once a loop is
\* compiled break_label_map maps its label to its after-loop block, an
\* entry that is never overwritten.
C38_FreshBreakLabels == []LabelsInOrder /\ [][LabelStep]_vars

\* A step that is a call of new_break_label by the user of the compiler: no
\* operation is drawn, no frame is pushed or popped, no Alloc and no assertion
\* is compiled, and the compiler changes.
DirectCall ==
    /\ UNCHANGED <<ir, stack, status, vm, ifs, allocs>>
    /\ compiler' # compiler

\* The labels of the loops grow with the order in which the loops start, stay
\* below the counter, and the map holds the after-loop block of every compiled
\* loop.
LabelsDistinct ==
    /\ \A k \in DOMAIN loops :
          /\ k - 1 <= loops[k].label
          /\ loops[k].label < compiler.break_counter
    /\ \A k \in DOMAIN loops, n \in DOMAIN loops :
          k < n => loops[k].label < loops[n].label
    /\ LabelCalls = 0 => \A k \in DOMAIN loops : loops[k].label = k - 1
    /\ compiler.break_label_map
            = {<<loops[k].label, loops[k].after>> : k \in Compiled}

\* The counter advances by one at a For and at a direct call, and at no other
\* step; the label of a loop is the counter when the loop starts, and an entry
\* of the map stays as it is.
LabelTaken ==
    /\ compiler'.break_counter
            = compiler.break_counter
                + (IF Drawn({"For"}) \/ DirectCall THEN 1 ELSE 0)
    /\ Drawn({"For"}) =>
          /\ loops'[Len(loops')].label = compiler.break_counter
          /\ \A e \in compiler.break_label_map : e[1] < loops'[Len(loops')].label
    /\ DirectCall => compiler'.break_label = Some(compiler.break_counter)
    /\ compiler.break_label_map \subseteq compiler'.break_label_map

\* C38, amended: every For allocates a break label distinct from all labels
\* allocated before: break_counter grows by one per For started and per call
\* of new_break_label made outside build, and never decreases; the label of a
\* loop is the counter when the loop starts, so the k-th loop has label k - 1
\* only when no label was taken outside build; once a loop is compiled
\* break_label_map maps its label to its after-loop block, an entry that is
\* never overwritten.
C38_LabelsDistinct == []LabelsDistinct /\ [][LabelTaken]_vars

\* A label is taken outside build, then one loop is compiled: the loop has
\* label 1 and the counter is 2.
C38_Witness ==
    /\ status = "done"
    /\ Len(loops) = 1
    /\ loops[1].label = 1
    /\ compiler.break_counter = 2
    /\ compiler.break_label_map = {<<1, 3>>}

====
